---- MODULE Spec2Model ----
(***************************************************************************)
(* Synchronization and reconciliation engine of github-offline-issues:     *)
(* the AppContext provider (publishPendingItems, syncRepository,           *)
(* incrementalSyncRepository, the add/remove operations of the four        *)
(* pending queues) over the storage service (app-store.json and            *)
(* offline-data.json) and the GitHub client.                               *)
(*                                                                         *)
(* Execution model.  The code is single-threaded JavaScript: an async      *)
(* function runs without interruption until it awaits a store or a remote  *)
(* call, and resumes when that call's response arrives.  One action of     *)
(* this module is one such uninterrupted block: it starts at the response  *)
(* of the call the task is waiting for and runs up to and including the    *)
(* issuing of the next call.  Store calls take effect in the order they    *)
(* are issued, so a store.get reads and a store.set writes in the block    *)
(* that issues it; a remote call takes effect in the block that receives   *)
(* its response.  store.save only flushes what store.set has put in the    *)
(* store, so the store content is what store.get returns next.             *)
(***************************************************************************)
EXTENDS Integers, Sequences, FiniteSets, TLC

\* ---------------------------------------------------------------- bounds
\* perPage of the paged fetches: the pages of the model hold two entries.
perPage == 2
\* Longest queue (per kind, for the synced repository) in an initial store.
MaxInitLen == 3
\* Sync invocations in one behaviour of the crash and overlap scenarios.
MaxSyncs == 2
\* User add/remove operations in one behaviour.
MaxAdds == 1
\* Process restarts in one behaviour.
MaxCrashes == 1

\* ------------------------------------------------------------- universes
RepoIds == {"r1", "r2"}
IssueNumbers == {1, 2}
IssueStates == {"open", "closed"}
Kinds == {"state", "labels", "local", "replies"}
Procs == {"s1", "s2"}

\* The order in which publishPendingItems walks the four queues.
KindOrderSwapped == <<"state", "labels", "replies", "local">>
KindOrder == <<"state", "labels", "local", "replies">>

\* The remote write each kind of queue entry is published with.
RemoteOp(kind) ==
  CASE kind = "state" -> "updateIssueState"
    [] kind = "labels" -> "updateIssueLabels"
    [] kind = "local" -> "createIssue"
    [] kind = "replies" -> "postIssueComment"

WriteOps == {"updateIssueState", "updateIssueLabels", "createIssue", "postIssueComment"}
ReadOps == {"fetchRepositoryLabels", "fetchRepositoryIssues", "fetchIssueComments"}

OpRank(op) ==
  CASE op = "updateIssueState" -> 1
    [] op = "updateIssueLabels" -> 2
    [] op = "createIssue" -> 3
    [] op = "postIssueComment" -> 4
    [] OTHER -> 5

\* ------------------------------------------------------------ data types
\* PendingReply / LocalIssue / PendingStateChange / PendingLabelUpdate:
\* the fields the engine reads.  val is the state, the label list, the
\* title or the body.
Entry(id, r, n, v) == [id |-> id, repoId |-> r, issueNumber |-> n, val |-> v]

\* OfflineRepository; present = FALSE stands for "no record under repo_{id}".
NoRepo == [present |-> FALSE, issues |-> <<>>, last_synced |-> 0]
OfflineRepo(issues, t) == [present |-> TRUE, issues |-> issues, last_synced |-> t]

\* OfflineIssue: the remote record as fetched (comments is its comment
\* count), with the comments fetched for it; comments_data is their number.
Snapshot(ri) ==
  [number |-> ri.number, state |-> ri.state, ver |-> ri.ver, body |-> ri.body,
   comments |-> ri.comments, comments_data |-> 0]

EmptyQueues == [k \in Kinds |-> <<>>]

\* CachedImage
CachedImage(url, repoId, t) == [url |-> url, repoId |-> repoId, cached_at |-> t]
NoImage == CachedImage("", "", 0)

\* ------------------------------------------------------- storage service
\* getPendingRepliesForRepo, getLocalIssuesForRepo,
\* getPendingStateChangesForRepo, getPendingLabelUpdatesForRepo
getPendingForRepo(q, repoId) == SelectSeq(q, LAMBDA e : e.repoId = repoId)

\* removePendingReply, removeLocalIssue, removePendingStateChange,
\* removePendingLabelUpdate: the list written back by store.set
removePendingKeepsAll(q, id) == q
removePendingDropsAll(q, id) == <<>>
removePending(q, id) == SelectSeq(q, LAMBDA e : e.id # id)

SameIssue(a, b) == a.repoId = b.repoId /\ a.issueNumber = b.issueNumber

\* addPendingStateChange, addPendingLabelUpdate: replace the entry of the
\* same (repoId, issueNumber)
addPendingStateChangeNoFilter(q, e) == Append(q, e)
addPendingStateChange(q, e) ==
  Append(SelectSeq(q, LAMBDA c : ~SameIssue(c, e)), e)

\* addPendingReply, addLocalIssue
addPendingReply(q, e) == Append(q, e)

addPendingToStore(kind, q, e) ==
  IF kind \in {"state", "labels"} THEN addPendingStateChange(q, e)
  ELSE addPendingReply(q, e)

\* The in-memory update after the store call: setPendingStateChanges,
\* setPendingLabelUpdates filter the same issue out, setPendingReplies and
\* setLocalIssues append.
addPendingToMemory(kind, prev, e) ==
  IF kind \in {"state", "labels"}
  THEN Append(SelectSeq(prev, LAMBDA c : ~SameIssue(c, e)), e)
  ELSE Append(prev, e)

\* setPendingReplies((prev) => prev.filter((r) => r.repoId !== repo.id)) at
\* the end of a queue's publish loop
dropRepoFromMemory(prev, repoId) == SelectSeq(prev, LAMBDA e : e.repoId # repoId)

\* ---------------------------------------------------------------- merge
RECURSIVE IndexOfNumber(_, _)
\* Position of issue number n in a list of issues, 0 when absent.
IndexOfNumber(s, n) ==
  IF s = <<>> THEN 0
  ELSE IF s[Len(s)].number = n /\ IndexOfNumber(SubSeq(s, 1, Len(s) - 1), n) = 0
       THEN Len(s)
       ELSE IndexOfNumber(SubSeq(s, 1, Len(s) - 1), n)

\* Map.set(number, issue): overwrite in place, or insert at the end.
\* (the map is bound to its value once, then searched)
MapSet(m, issue) ==
  CHOOSE r \in {IF IndexOfNumber(v, issue.number) = 0 THEN Append(v, issue)
                ELSE [v EXCEPT ![IndexOfNumber(v, issue.number)] = issue] :
                v \in {m}} : TRUE

RECURSIVE MapFrom(_)
\* new Map(list.map((issue) => [issue.number, issue])), as the list of its
\* values in insertion order
MapFrom(s) ==
  IF s = <<>> THEN <<>>
  ELSE MapSet(MapFrom(SubSeq(s, 1, Len(s) - 1)), s[Len(s)])

RECURSIVE MergeInto(_, _)
MergeInto(m, updated) ==
  IF updated = <<>> THEN m
  ELSE MergeInto(MapSet(m, Head(updated)), Tail(updated))

\* incrementalSyncRepository: mergedIssues
MergeKeepsExisting(existing, updated) == MergeInto(MapFrom(updated), existing)
Merge(existing, updated) == MergeInto(MapFrom(existing), updated)

\* ------------------------------------------------------------- variables
VARIABLES
  cfg,              \* scenario: whether tasks may overlap, and the budgets
  now,              \* the clock read by Date.now() and new Date()
  store,            \* app-store.json: the four pending lists
  offStore,         \* offline-data.json: repo_{repoId}
  mem,              \* React state: pendingStateChanges, pendingLabelUpdates,
                    \* localIssues, pendingReplies
  offlineData,      \* React state: Map repoId -> OfflineRepository
  syncStatus,       \* React state: Map repoId -> {syncing}
  repositoryLabels, \* React state: Map repoId -> label names
  remote,           \* the issue tracker: repoId -> list of issues
  calls,            \* the remote calls of each sync invocation, in order
  procs,            \* the sync invocations in flight
  user,             \* the user's add/remove operation in flight
  cachedImages,     \* offline-data.json: cached_images
  imageLog,         \* the image fetches and the returns of cacheImage, in order
  view,             \* the last evaluation of an effective-view function
  repositories,     \* app-store.json: repositories (store) and the React
                    \* state repositories (mem)
  auth,             \* init(): app-store.json github_token, the React state
                    \* token, isAuthenticated, isLoading, and its position
  nSyncs, nAdds, nCrashes

vars == <<cfg, repositories, auth, now, store, offStore, mem, offlineData, syncStatus,
          repositoryLabels, remote, calls, procs, user, cachedImages, imageLog,
          view, nSyncs, nAdds, nCrashes>>

imageCache == <<cachedImages, imageLog>>

pendingStateChanges == mem["state"]
pendingLabelUpdates == mem["labels"]
localIssues == mem["local"]
pendingReplies == mem["replies"]

IdleProc ==
  [pc |-> "idle", sid |-> 0, repo |-> "r1", mode |-> "full", q |-> 0,
   lst |-> <<>>, i |-> 0, rd |-> <<>>, existing |-> NoRepo, issues |-> <<>>,
   rec |-> NoRepo, wrote |-> FALSE, urls |-> <<>>, u |-> 0, img |-> NoImage,
   page |-> 1, pages |-> <<>>, c |-> 0, trace |-> <<>>,
   pre |-> [queues |-> EmptyQueues, off |-> NoRepo, data |-> NoRepo]]

\* No effective-view function has been evaluated yet.
NoView ==
  [fn |-> "none", repoId |-> "", issueNumber |-> 0, current |-> <<>>,
   queue |-> <<>>, catalog |-> <<>>, result |-> <<>>]

\* Repository: id is owner/name.
Repository(id, t) == [id |-> id, added_at |-> t]

HasRepo(repos, id) == \E x \in 1..Len(repos) : repos[x].id = id

\* Both repositories were added at time 0.
InitRepositories ==
  [store |-> <<Repository("r1", 0), Repository("r2", 0)>>,
   mem |-> <<Repository("r1", 0), Repository("r2", 0)>>]

IdleUser == [pc |-> "idle", op |-> "add", kind |-> "replies",
             e |-> Entry(0, "r1", 0, ""), rd |-> <<>>, threw |-> FALSE,
             publishing |-> FALSE]

\* AppProvider before init() has run: isLoading = true, isAuthenticated =
\* false, token = null ("" stands for null).  github_token is the stored
\* token; online and valid say whether the remote answers validateToken and
\* accepts the token; had and threw remember the token the store started
\* with and whether a store call of init() threw.
Starting(stored, online, valid) ==
  [pc |-> "getToken", github_token |-> stored, savedToken |-> "",
   saved |-> EmptyQueues, token |-> "", isAuthenticated |-> FALSE,
   isLoading |-> TRUE, online |-> online, valid |-> valid, had |-> stored,
   threw |-> FALSE]

\* init() has ended with a token the remote accepted: the state the sync
\* engine works in.
Authenticated ==
  [Starting("t", TRUE, TRUE) EXCEPT !.pc = "end", !.savedToken = "t",
                                    !.token = "t", !.isAuthenticated = TRUE,
                                    !.isLoading = FALSE]

\* AppRoutes: what is rendered
AppRoutes ==
  IF auth.isLoading THEN "Loading"
  ELSE IF ~auth.isAuthenticated THEN "AuthScreen"
  ELSE "Routes"

InFlight ==
  Cardinality({p \in Procs : procs[p].pc # "idle"})
    + (IF user.pc = "idle" THEN 0 ELSE 1)

\* A new task may start: always when tasks may overlap, otherwise only when
\* nothing is in flight.
MayStart == cfg.overlap \/ InFlight = 0

\* ------------------------------------------------------------------ init
KindIndex(kind) == CHOOSE k \in 1..4 : KindOrder[k] = kind

InitIssue(kind, j) == IF kind = "local" THEN 0 ELSE ((j - 1) % 2) + 1

InitVal(kind, j) ==
  CASE kind = "state" -> (IF j % 2 = 1 THEN "closed" ELSE "open")
    [] kind = "labels" -> <<"bug">>
    [] kind = "local" -> "title"
    [] kind = "replies" -> "body"

\* A pending list as earlier sessions of the program leave it in the store:
\* n entries of r1 in the order they were added and, when other is set, one
\* entry of r2 added after the first of them.  Ids are distinct, as the
\* Date.now() of distinct user actions.
InitQueue(kind, n, other) ==
  LET mine == [j \in 1..n |-> Entry(10 * KindIndex(kind) + j, "r1",
                                    InitIssue(kind, j), InitVal(kind, j))]
      theirs == Entry(10 * KindIndex(kind) + 9, "r2", InitIssue(kind, 1),
                      InitVal(kind, 2))
  IN IF ~other THEN mine
     ELSE IF n = 0 THEN <<theirs>>
     ELSE <<mine[1], theirs>> \o SubSeq(mine, 2, n)

\* State changes and label updates hold one entry per issue.
InitLens(maxLen) ==
  {l \in [Kinds -> 0..maxLen] :
     \A k \in {"state", "labels"} : l[k] <= Cardinality(IssueNumbers)}

\* The remote repository, as the issues endpoint lists it: issue 1 was
\* changed (it got its comment) after the snapshot below was taken, issue 2
\* was not and has no comment.
InitRemoteIssues ==
  <<[number |-> 1, state |-> "open", ver |-> 2, updated |-> 2, body |-> <<>>,
     comments |-> 1, pull_request |-> FALSE],
    [number |-> 2, state |-> "open", ver |-> 1, updated |-> 0, body |-> <<>>,
     comments |-> 0, pull_request |-> FALSE]>>

\* The snapshot of an earlier sync at time 1.
InitSnapshot ==
  OfflineRepo(<<[number |-> 1, state |-> "open", ver |-> 1, body |-> <<>>,
                 comments |-> 0, comments_data |-> 0],
                [number |-> 2, state |-> "open", ver |-> 1, body |-> <<>>,
                 comments |-> 0, comments_data |-> 0]>>, 1)

\* The state after init() has loaded the store into memory.
InitWith(c, lens, other, snap) ==
  /\ cfg = c
  /\ repositories = InitRepositories
  /\ auth = Authenticated
  /\ now = 50
  /\ store = [k \in Kinds |-> InitQueue(k, lens[k], other)]
  /\ mem = store
  /\ offStore = [r \in RepoIds |-> IF r = "r1" /\ snap THEN InitSnapshot ELSE NoRepo]
  /\ offlineData = offStore
  /\ syncStatus = [r \in RepoIds |-> "none"]
  /\ repositoryLabels = [r \in RepoIds |-> <<>>]
  /\ remote = [r \in RepoIds |-> InitRemoteIssues]
  /\ calls = [s \in 1..c.syncs |-> <<>>]
  /\ procs = [p \in Procs |-> IdleProc]
  /\ user = IdleUser
  /\ cachedImages = <<>>
  /\ imageLog = <<>>
  /\ view = NoView
  /\ nSyncs = 0
  /\ nAdds = 0
  /\ nCrashes = 0

\* The issue lists the merge is exercised on: lists of at most maxLen
\* issues numbered 1..maxKey, each at one of the given versions.
IssueLists(maxKey, maxLen, vers) ==
  UNION {[1..n -> [number : 1..maxKey, state : {"open"}, ver : vers,
                   body : {<<>>}, comments : {1}, comments_data : {1}]] :
           n \in 0..maxLen}

UniqueNumbers(s) == \A i, j \in 1..Len(s) : i # j => s[i].number # s[j].number

\* ------------------------------------------------------- sync: start
Kind(p) == KindOrder[procs[p].q]

\* The state of task p after the publish loop of queue number q: the next
\* queue's list is read from the store, or the fetch phase begins.
AfterQueue(pr, q) ==
  IF q < 4
  THEN [pr EXCEPT !.pc = "list", !.q = q + 1, !.i = 0, !.rd = <<>>,
                  !.lst = getPendingForRepo(store[KindOrder[q + 1]], pr.repo)]
  ELSE [pr EXCEPT !.pc = IF pr.mode = "full" THEN "labels" ELSE "issues",
                  !.q = 0, !.i = 0, !.rd = <<>>, !.lst = <<>>]

BeginUnlessSyncing(p, repo, mode, existing) ==
  /\ procs[p].pc = "idle"
  /\ syncStatus[repo] # "syncing"
  /\ MayStart
  /\ p \in cfg.slots
  /\ auth.token # ""
  /\ repo \in cfg.repos
  /\ HasRepo(repositories.mem, repo)
  /\ p = "s1" \/ procs["s1"].pc # "idle"
  /\ nSyncs < cfg.syncs
  /\ nSyncs' = nSyncs + 1
  /\ syncStatus' = [syncStatus EXCEPT ![repo] = "syncing"]
  /\ procs' = [procs EXCEPT ![p] =
        [IdleProc EXCEPT !.pc = "list", !.sid = nSyncs + 1, !.repo = repo,
                         !.mode = mode, !.q = 1, !.existing = existing,
                         !.lst = getPendingForRepo(store[KindOrder[1]], repo),
                         !.pre = [queues |-> store, off |-> offStore[repo],
                                  data |-> offlineData[repo]]]]
  /\ UNCHANGED <<cfg, repositories, auth, imageCache, view, now, store,
                 offStore, mem, offlineData, repositoryLabels, remote, calls,
                 user, nAdds, nCrashes>>
Begin(p, repo, mode, existing) ==
  /\ procs[p].pc = "idle"
  /\ MayStart
  /\ p \in cfg.slots
  /\ auth.token # ""
  /\ repo \in cfg.repos
  /\ HasRepo(repositories.mem, repo)
  /\ p = "s1" \/ procs["s1"].pc # "idle"
  /\ nSyncs < cfg.syncs
  /\ nSyncs' = nSyncs + 1
  /\ syncStatus' = [syncStatus EXCEPT ![repo] = "syncing"]
  /\ procs' = [procs EXCEPT ![p] =
        [IdleProc EXCEPT !.pc = "list", !.sid = nSyncs + 1, !.repo = repo,
                         !.mode = mode, !.q = 1, !.existing = existing,
                         !.lst = getPendingForRepo(store[KindOrder[1]], repo),
                         !.pre = [queues |-> store, off |-> offStore[repo],
                                  data |-> offlineData[repo]]]]
  /\ UNCHANGED <<cfg, repositories, auth, imageCache, view, now, store,
                 offStore, mem, offlineData, repositoryLabels, remote, calls,
                 user, nAdds, nCrashes>>

\* (variant) the status slot is set before the token is tested
returnsWithoutTokenShowsSyncing(p, repo) ==
  /\ procs[p].pc = "idle"
  /\ p \in cfg.slots
  /\ HasRepo(repositories.mem, repo)
  /\ auth.token = ""
  /\ nSyncs < cfg.syncs
  /\ nSyncs' = nSyncs + 1
  /\ syncStatus' = [syncStatus EXCEPT ![repo] = "syncing"]
  /\ UNCHANGED <<cfg, repositories, auth, imageCache, view, now, store,
                 offStore, mem, offlineData, repositoryLabels, remote, calls,
                 procs, user, nAdds, nCrashes>>

\* syncRepository / incrementalSyncRepository: if (!token) return
returnsWithoutToken(p, repo) ==
  /\ procs[p].pc = "idle"
  /\ p \in cfg.slots
  /\ HasRepo(repositories.mem, repo)
  /\ auth.token = ""
  /\ nSyncs < cfg.syncs
  /\ nSyncs' = nSyncs + 1
  /\ UNCHANGED <<cfg, repositories, auth, imageCache, view, now, store,
                 offStore, mem, offlineData, syncStatus, repositoryLabels,
                 remote, calls, procs, user, nAdds, nCrashes>>

\* syncRepository up to the first await of publishPendingItems
syncRepository(p, repo) == Begin(p, repo, "full", NoRepo)

\* incrementalSyncRepository up to the first await: without a previous
\* last_synced it is syncRepository
incrementalSyncRepositoryAlwaysMerges(p, repo) ==
  Begin(p, repo, "incr", offlineData[repo])
incrementalSyncRepository(p, repo) ==
  IF offlineData[repo].present
  THEN Begin(p, repo, "incr", offlineData[repo])
  ELSE Begin(p, repo, "full", NoRepo)

\* ----------------------------------------------------- sync: publish
Call(p, op, id, ok) ==
  [op |-> op, repo |-> procs[p].repo, id |-> id, ok |-> ok]

Logged(p, op, id, ok) ==
  [calls EXCEPT ![procs[p].sid] = Append(@, Call(p, op, id, ok))]

\* The remote's handling of a successful write.
Touch(issues, n, st) ==
  [x \in 1..Len(issues) |->
     IF issues[x].number = n
     THEN [issues[x] EXCEPT !.ver = @ + 1, !.updated = now,
                            !.state = IF st = "" THEN @ ELSE st]
     ELSE issues[x]]

\* A new comment counts in the issue's comment count.
AddComment(issues, n) ==
  [x \in 1..Len(issues) |->
     IF issues[x].number = n THEN [issues[x] EXCEPT !.comments = @ + 1]
     ELSE issues[x]]

\* The issues endpoint lists the newest issue first.
RemoteCreate(issues) ==
  <<[number |-> Len(issues) + 1, state |-> "open", ver |-> 1,
     updated |-> now, body |-> <<>>, comments |-> 0,
     pull_request |-> FALSE]>> \o issues

RemoteApply(issues, kind, e) ==
  CASE kind = "state" -> Touch(issues, e.issueNumber, e.val)
    [] kind = "local" -> RemoteCreate(issues)
    [] kind = "replies" -> AddComment(Touch(issues, e.issueNumber, ""),
                                      e.issueNumber)
    [] OTHER -> Touch(issues, e.issueNumber, "")

\* setSyncStatus({syncing: true, progress}): every phase of a sync reports
\* its progress before it issues a remote call; reading the next queue's
\* list reports nothing.
Progress(p) ==
  syncStatus' = IF procs'[p].pc = "list" THEN syncStatus
                ELSE [syncStatus EXCEPT ![procs[p].repo] = "syncing"]

\* The result of get...ForRepo arrives: the first remote call is issued, or
\* the queue is empty and the next one is read.
publishList(p) ==
  /\ procs[p].pc = "list"
  /\ procs' = [procs EXCEPT ![p] =
        IF procs[p].lst # <<>> THEN [@ EXCEPT !.pc = "call", !.i = 1]
        ELSE AfterQueue(@, @.q)]
  /\ Progress(p)
  /\ UNCHANGED <<cfg, repositories, auth, imageCache, view, now, store,
                 offStore, mem, offlineData, repositoryLabels, remote, calls,
                 user, nSyncs, nAdds, nCrashes>>

\* What a task does when an awaited call throws: the catch rethrows and the
\* finally block sets syncing to false.
AbortContinues(pr) ==
  IF pr.pc = "call" /\ pr.i < Len(pr.lst)
  THEN [pr EXCEPT !.i = @ + 1]
  ELSE [pr EXCEPT !.pc = "failed"]
Abort(pr) == [pr EXCEPT !.pc = "failed"]

\* The remote call of entry i succeeds: the entry's removal starts with the
\* read of the whole list.
publishCallOk(p) ==
  LET pr == procs[p]
      e == pr.lst[pr.i]
  IN /\ pr.pc = "call"
     /\ calls' = Logged(p, RemoteOp(Kind(p)), e.id, TRUE)
     /\ remote' = [remote EXCEPT ![pr.repo] = RemoteApply(@, Kind(p), e)]
     /\ procs' = [procs EXCEPT ![p] = [@ EXCEPT !.pc = "set", !.rd = store[Kind(p)]]]
     /\ UNCHANGED <<cfg, repositories, auth, imageCache, view, now, store,
                    offStore, mem, offlineData, syncStatus, repositoryLabels,
                    user, nSyncs, nAdds, nCrashes>>

\* The remote call of entry i throws.
publishCallFails(p) ==
  LET pr == procs[p]
      e == pr.lst[pr.i]
  IN /\ pr.pc = "call"
     /\ calls' = Logged(p, RemoteOp(Kind(p)), e.id, FALSE)
     /\ procs' = [procs EXCEPT ![p] = Abort(@)]
     /\ syncStatus' = [syncStatus EXCEPT ![pr.repo] = "idle"]
     /\ UNCHANGED <<cfg, repositories, auth, imageCache, view, now, store,
                    offStore, mem, offlineData, repositoryLabels, remote,
                    user, nSyncs, nAdds, nCrashes>>

\* remove...FromStore: the filtered list is written back.
publishRemoveSet(p) ==
  LET pr == procs[p]
  IN /\ pr.pc = "set"
     /\ store' = [store EXCEPT ![Kind(p)] = removePending(pr.rd, pr.lst[pr.i].id)]
     /\ procs' = [procs EXCEPT ![p] = [@ EXCEPT !.pc = "save", !.rd = <<>>]]
     /\ UNCHANGED <<cfg, repositories, auth, imageCache, view, now, offStore,
                    mem, offlineData, syncStatus, repositoryLabels, remote,
                    calls, user, nSyncs, nAdds, nCrashes>>

\* store.save returned: the next entry's call is issued; after the last
\* entry the in-memory list drops the repository's entries and the next
\* queue is read.
publishRemoveSaved(p) ==
  LET pr == procs[p]
  IN /\ pr.pc = "save"
     /\ IF pr.i < Len(pr.lst)
        THEN /\ procs' = [procs EXCEPT ![p] = [@ EXCEPT !.pc = "call", !.i = @ + 1]]
             /\ mem' = mem
        ELSE /\ procs' = [procs EXCEPT ![p] = AfterQueue(@, @.q)]
             /\ mem' = [mem EXCEPT ![Kind(p)] = dropRepoFromMemory(@, pr.repo)]
     /\ Progress(p)
     /\ UNCHANGED <<cfg, repositories, auth, imageCache, view, now, store,
                    offStore, offlineData, repositoryLabels, remote, calls,
                    user, nSyncs, nAdds, nCrashes>>

\* store.set or store.save of the removal throws.
StoreFailsSkipsFinally(p, at) ==
  /\ procs[p].pc = at
  /\ procs' = [procs EXCEPT ![p] = Abort(@)]
  /\ UNCHANGED <<cfg, repositories, auth, imageCache, view, now, store,
                 offStore, mem, offlineData, syncStatus, repositoryLabels,
                 remote, calls, user, nSyncs, nAdds, nCrashes>>
StoreFails(p, at) ==
  /\ procs[p].pc = at
  /\ procs' = [procs EXCEPT ![p] = Abort(@)]
  /\ syncStatus' = [syncStatus EXCEPT ![procs[p].repo] = "idle"]
  /\ UNCHANGED <<cfg, repositories, auth, imageCache, view, now, store,
                 offStore, mem, offlineData, repositoryLabels, remote, calls,
                 user, nSyncs, nAdds, nCrashes>>

publishRemoveSetFails(p) == StoreFails(p, "set")
publishRemoveSaveFails(p) == StoreFails(p, "save")

\* ------------------------------------------------------- image urls
\* The image references the model's issue bodies are made of: two absolute
\* URLs and a relative path.
HttpUrls == {"https://h/a.png", "https://h/b.png"}
ImageRefs == HttpUrls \cup {"img/c.png"}

RECURSIVE Unique(_)
\* [...new Set(list)]: the first occurrence of each element, in order
Unique(s) ==
  IF s = <<>> THEN <<>>
  ELSE LET init == Unique(SubSeq(s, 1, Len(s) - 1))
       IN IF \E x \in 1..Len(init) : init[x] = s[Len(s)] THEN init
          ELSE Append(init, s[Len(s)])

\* A markdown text is the sequence of its pieces: each piece is one of the
\* characters the two regular expressions tell apart, ! [ ] ( ) " ' >, or a
\* run of other characters (an alt text, a reference, "<img", "src=").
Quotes == {"\"", "'"}

\* The constructs the model's texts are made of: a markdown image, a
\* markdown image with a title, an img tag, a markdown link, a bare
\* reference.
Forms == {"md", "title", "html", "link", "text"}

Segment(form, ref) ==
  CASE form = "md" -> <<"!", "[", "alt", "]", "(", ref, ")">>
    [] form = "title" ->
         <<"!", "[", "alt", "]", "(", ref, " ", "\"", "t", "\"", ")">>
    [] form = "html" -> <<"<img", " ", "src=", "\"", ref, "\"", ">">>
    [] form = "link" -> <<"[", "alt", "]", "(", ref, ")">>
    [] OTHER -> <<ref>>

RECURSIVE Markdown(_)
\* The text of a sequence of constructs.
Markdown(segs) ==
  IF segs = <<>> THEN <<>>
  ELSE Segment(Head(segs)[1], Head(segs)[2]) \o Markdown(Tail(segs))

RECURSIVE Join(_)
\* The string of a sequence of pieces.
Join(pieces) == IF pieces = <<>> THEN "" ELSE Head(pieces) \o Join(Tail(pieces))

\* The first index from i on at which the text has one of the pieces cs, 0
\* when there is none.
FirstAt(t, i, cs) ==
  IF \E x \in i..Len(t) : t[x] \in cs
  THEN CHOOSE x \in i..Len(t) : t[x] \in cs /\ \A y \in i..(x - 1) : t[y] \notin cs
  ELSE 0

NoMatch == [from |-> 0, to |-> 0, end |-> 0]

\* MARKDOWN_IMAGE_REGEX = /!\[([^\]]*)\]\(([^)]+)\)/ matched at index p:
\* group 2 is t[from..to], the match ends at end.
MarkdownImageAt(t, p) ==
  LET j == FirstAt(t, p + 2, {"]"})
      k == IF j = 0 THEN 0 ELSE FirstAt(t, j + 2, {")"})
  IN IF /\ p + 1 <= Len(t)
        /\ t[p] = "!"
        /\ t[p + 1] = "["
        /\ j # 0
        /\ j + 1 <= Len(t)
        /\ t[j + 1] = "("
        /\ k > j + 2
     THEN [from |-> j + 2, to |-> k - 1, end |-> k]
     ELSE NoMatch

\* HTML_IMAGE_REGEX = /<img[^>]+src=["']([^"']+)["'][^>]*>/ with the src=
\* at index s: group 1 is t[from..to].
HtmlImageWith(t, p, s) ==
  LET e == FirstAt(t, s + 2, Quotes)
      g == IF e = 0 THEN 0 ELSE FirstAt(t, e + 1, {">"})
  IN IF /\ t[p] = "<img"
        /\ s > p + 1
        /\ t[s] = "src="
        /\ \A x \in (p + 1)..(s - 1) : t[x] # ">"
        /\ s + 1 <= Len(t)
        /\ t[s + 1] \in Quotes
        /\ e > s + 2
        /\ g # 0
     THEN [from |-> s + 2, to |-> e - 1, end |-> g]
     ELSE NoMatch

\* The match at index p: [^>]+ is greedy, so the last src= that lets the
\* rest match is taken.
HtmlImageAt(t, p) ==
  LET ss == {s \in (p + 2)..Len(t) : HtmlImageWith(t, p, s) # NoMatch}
  IN IF ss = {} THEN NoMatch
     ELSE HtmlImageWith(t, p, CHOOSE s \in ss : \A s2 \in ss : s2 <= s)

\* url.startsWith("http://") || url.startsWith("https://")
startsWithHttp(url) == url # <<>> /\ Head(url) \in HttpUrls

RECURSIVE markdownUrls(_, _)
\* The loop over MARKDOWN_IMAGE_REGEX.exec from index i on.
markdownUrls(t, i) ==
  LET ps == {p \in i..Len(t) : MarkdownImageAt(t, p) # NoMatch}
      p == CHOOSE q \in ps : \A q2 \in ps : q <= q2
      m == MarkdownImageAt(t, p)
      url == SubSeq(t, m.from, m.to)
  IN IF ps = {} THEN <<>>
     ELSE (IF startsWithHttp(url) THEN <<Join(url)>> ELSE <<>>)
            \o markdownUrls(t, m.end + 1)

RECURSIVE htmlUrls(_, _)
\* The loop over HTML_IMAGE_REGEX.exec from index i on.
htmlUrls(t, i) ==
  LET ps == {p \in i..Len(t) : HtmlImageAt(t, p) # NoMatch}
      p == CHOOSE q \in ps : \A q2 \in ps : q <= q2
      m == HtmlImageAt(t, p)
      url == SubSeq(t, m.from, m.to)
  IN IF ps = {} THEN <<>>
     ELSE (IF startsWithHttp(url) THEN <<Join(url)>> ELSE <<>>)
            \o htmlUrls(t, m.end + 1)

\* extractImageUrls of a text (the issue's body and those of its comments)
extractImageUrls(markdown) ==
  Unique(markdownUrls(markdown, 1) \o htmlUrls(markdown, 1))

RECURSIVE allUrls(_)
allUrls(issues) ==
  IF issues = <<>> THEN <<>>
  ELSE extractImageUrls(Head(issues).body) \o allUrls(Tail(issues))

\* cacheIssueImages: uniqueUrls
uniqueUrls(issues) == Unique(allUrls(issues))

\* ------------------------------------------------------- sync: fetch
\* The label catalog of the remote repository.
RemoteLabels == <<[id |-> 0, name |-> "bug", color |-> "d73a4a"]>>

RECURSIVE SnapshotsOf(_)
SnapshotsOf(issues) ==
  IF issues = <<>> THEN <<>>
  ELSE <<Snapshot(Head(issues))>> \o SnapshotsOf(Tail(issues))

\* What the issues endpoint lists for the request of fetchRepositoryIssues /
\* fetchRepositoryIssuesSince: all issues and pull requests, or the ones the
\* remote's since filter lets through.
Listing(pr) ==
  IF pr.mode = "full" THEN remote[pr.repo]
  ELSE SelectSeq(remote[pr.repo],
                 LAMBDA ri : ri.updated >= pr.existing.last_synced)

\* Page number k of a listing.
Page(listing, k) ==
  SubSeq(listing, (k - 1) * perPage + 1,
         IF k * perPage < Len(listing) THEN k * perPage ELSE Len(listing))

\* (variant) pull requests are kept
realIssuesKeepsAll(issues) == issues

\* issues.filter((issue) => !issue.pull_request)
realIssues(issues) == SelectSeq(issues, LAMBDA ri : ~ri.pull_request)

\* The page the remote answers the pending request with, and allIssues
\* after allIssues.push(...realIssues).
RawPage(pr) == Page(Listing(pr), pr.page)
Fetched(pr) == pr.issues \o SnapshotsOf(realIssues(RawPage(pr)))

\* The comments the remote has of issue number n.
CommentsOf(issues, n) ==
  IF \E x \in 1..Len(issues) : issues[x].number = n
  THEN issues[CHOOSE x \in 1..Len(issues) : issues[x].number = n].comments
  ELSE 0

\* fetchAllIssuesWithComments / fetchUpdatedIssuesWithComments, the loop from
\* issue c on: the first issue with a comment count above zero, Len + 1 when
\* there is none.
NextWithComments(issues, c) ==
  IF \E x \in c..Len(issues) : issues[x].comments > 0
  THEN CHOOSE x \in c..Len(issues) :
         issues[x].comments > 0 /\ \A y \in c..(x - 1) : issues[y].comments = 0
  ELSE Len(issues) + 1

\* onProgress(i + 1, issues.length) of the issues c..d
ProgressEvents(issues, c, d) ==
  [x \in 1..(d - c + 1) |->
     [ev |-> "progress", current |-> c + x - 1, total |-> Len(issues),
      number |-> issues[c + x - 1].number]]

CommentsEvent(issue) ==
  [ev |-> "comments", current |-> 0, total |-> 0, number |-> issue.number]

RemoteFails(p, at, op) ==
  /\ procs[p].pc = at
  /\ calls' = Logged(p, op,
                     IF at = "comments"
                     THEN procs[p].issues[procs[p].c].number ELSE 0, FALSE)
  /\ procs' = [procs EXCEPT ![p] = Abort(@)]
  /\ syncStatus' = [syncStatus EXCEPT ![procs[p].repo] = "idle"]
  /\ UNCHANGED <<cfg, repositories, auth, imageCache, view, now, store,
                 offStore, mem, offlineData, repositoryLabels, remote, user,
                 nSyncs, nAdds, nCrashes>>

\* syncRepository: fetchRepositoryLabels returned
fetchLabelsOk(p) ==
  /\ procs[p].pc = "labels"
  /\ calls' = Logged(p, "fetchRepositoryLabels", 0, TRUE)
  /\ repositoryLabels' = [repositoryLabels EXCEPT ![procs[p].repo] = RemoteLabels]
  /\ procs' = [procs EXCEPT ![p] = [@ EXCEPT !.pc = "issues"]]
  /\ UNCHANGED <<cfg, repositories, auth, imageCache, view, now, store,
                 offStore, mem, offlineData, syncStatus, remote, user, nSyncs,
                 nAdds, nCrashes>>

fetchLabelsFails(p) == RemoteFails(p, "labels", "fetchRepositoryLabels")

\* (variant) the new issues are stored under the old last_synced
NewRecordKeepsCursor(pr, issues) ==
  OfflineRepo(IF pr.mode = "full" THEN issues
              ELSE Merge(pr.existing.issues, issues), pr.pre.off.last_synced)

\* (variant) the merge starts from the record the store holds now
NewRecordMergesStored(pr, issues) ==
  OfflineRepo(IF pr.mode = "full" THEN issues
              ELSE Merge(offStore[pr.repo].issues, issues), now)

\* The OfflineRepository a sync builds from what it fetched.
NewRecord(pr, issues) ==
  OfflineRepo(IF pr.mode = "full" THEN issues ELSE Merge(pr.existing.issues, issues),
              now)

\* The record is built with last_synced = now and handed to store.set; pr is
\* the task as the block has left it so far.
SaveSet(p, pr, issues) ==
  /\ offStore' = [offStore EXCEPT ![pr.repo] = NewRecord(pr, issues)]
  /\ now' = now + 1
  /\ procs' = [procs EXCEPT ![p] =
        [pr EXCEPT !.pc = "persist", !.issues = issues, !.wrote = TRUE,
                   !.rec = NewRecord(pr, issues)]]

\* (variant) the loop reports no progress
fetchCommentsSkipsProgress(p, pr, issues, c) ==
  LET d == NextWithComments(issues, c)
      n == Len(issues)
      nxt == [pr EXCEPT !.issues = issues, !.c = d, !.rd = <<>>]
  IN /\ IF d <= n
        THEN /\ procs' = [procs EXCEPT ![p] =
                   [nxt EXCEPT !.pc = "comments",
                               !.trace = @ \o <<CommentsEvent(issues[d])>>]]
             /\ UNCHANGED <<now, offStore>>
        ELSE IF pr.mode = "full"
        THEN /\ procs' = [procs EXCEPT ![p] =
                   [nxt EXCEPT !.pc = "images", !.urls = uniqueUrls(issues),
                               !.u = 1]]
             /\ UNCHANGED <<now, offStore>>
        ELSE SaveSet(p, nxt, issues)
     /\ syncStatus' = IF pr.mode = "full" \/ c <= n
                      THEN [syncStatus EXCEPT ![pr.repo] = "syncing"]
                      ELSE syncStatus

\* The loop of fetchAllIssuesWithComments / fetchUpdatedIssuesWithComments
\* goes on from issue c: progress is reported for each issue up to the next
\* one with a comment count above zero, whose comments are requested.  After
\* the last issue a full sync goes on to cache images and an incremental
\* sync merges and saves.
fetchComments(p, pr, issues, c) ==
  LET d == NextWithComments(issues, c)
      n == Len(issues)
      seen == ProgressEvents(issues, c, IF d <= n THEN d ELSE n)
      nxt == [pr EXCEPT !.issues = issues, !.c = d, !.rd = <<>>,
                        !.trace = @ \o seen]
  IN /\ IF d <= n
        THEN /\ procs' = [procs EXCEPT ![p] =
                   [nxt EXCEPT !.pc = "comments",
                               !.trace = @ \o <<CommentsEvent(issues[d])>>]]
             /\ UNCHANGED <<now, offStore>>
        ELSE IF pr.mode = "full"
        THEN /\ procs' = [procs EXCEPT ![p] =
                   [nxt EXCEPT !.pc = "images", !.urls = uniqueUrls(issues),
                               !.u = 1]]
             /\ UNCHANGED <<now, offStore>>
        ELSE SaveSet(p, nxt, issues)
     /\ syncStatus' = IF pr.mode = "full" \/ c <= n
                      THEN [syncStatus EXCEPT ![pr.repo] = "syncing"]
                      ELSE syncStatus

\* The page that was requested, with what the remote answered.
Paged(pr) ==
  [pr EXCEPT !.pages = Append(@, [page |-> pr.page, raw |-> RawPage(pr)])]

\* (variant) the fetched issues are shown before their comments are fetched
fetchIssuesOkShowsEarly(p) ==
  LET pr == procs[p]
  IN /\ pr.pc = "issues"
     /\ IF Len(RawPage(pr)) < perPage
        THEN /\ calls' = Logged(p, "fetchRepositoryIssues", 0, TRUE)
             /\ fetchComments(p, Paged(pr), Fetched(pr), 1)
             /\ offlineData' = [offlineData EXCEPT ![pr.repo] =
                                  NewRecord(pr, Fetched(pr))]
        ELSE /\ procs' = [procs EXCEPT ![p] =
                   [Paged(pr) EXCEPT !.issues = Fetched(pr), !.page = @ + 1]]
             /\ UNCHANGED <<calls, now, offStore, syncStatus, offlineData>>
     /\ UNCHANGED <<cfg, repositories, auth, imageCache, view, store, mem,
                    repositoryLabels, remote, user, nSyncs, nAdds, nCrashes>>

\* A page of issues arrived.  After a full page the next page is requested;
\* after a short page fetchRepositoryIssues returns and the loop over the
\* issues starts.
fetchIssuesOk(p) ==
  LET pr == procs[p]
  IN /\ pr.pc = "issues"
     /\ IF Len(RawPage(pr)) < perPage
        THEN /\ calls' = Logged(p, "fetchRepositoryIssues", 0, TRUE)
             /\ fetchComments(p, Paged(pr), Fetched(pr), 1)
        ELSE /\ procs' = [procs EXCEPT ![p] =
                   [Paged(pr) EXCEPT !.issues = Fetched(pr), !.page = @ + 1]]
             /\ UNCHANGED <<calls, now, offStore, syncStatus>>
     /\ UNCHANGED <<cfg, repositories, auth, imageCache, view, store, mem,
                    offlineData, repositoryLabels, remote, user, nSyncs,
                    nAdds, nCrashes>>

fetchIssuesFails(p) == RemoteFails(p, "issues", "fetchRepositoryIssues")

\* The comments of issue c arrived: they go into its record and the loop
\* goes on with the next issue.
fetchCommentsOk(p) ==
  LET pr == procs[p]
      n == pr.issues[pr.c].number
  IN /\ pr.pc = "comments"
     /\ calls' = Logged(p, "fetchIssueComments", n, TRUE)
     /\ fetchComments(p, pr,
                      [pr.issues EXCEPT ![pr.c].comments_data =
                                          CommentsOf(remote[pr.repo], n)],
                      pr.c + 1)
     /\ UNCHANGED <<cfg, repositories, auth, imageCache, view, store, mem,
                    offlineData, repositoryLabels, remote, user, nSyncs,
                    nAdds, nCrashes>>

fetchCommentsFails(p) == RemoteFails(p, "comments", "fetchIssueComments")

\* cacheIssueImages: the next URL's cacheImage starts with the lookup of
\* getCachedImageByUrl; after the last URL the record is built and saved.
cacheIssueImages(p) ==
  LET pr == procs[p]
  IN /\ pr.pc = "images"
     /\ IF pr.u > Len(pr.urls)
        THEN SaveSet(p, pr, pr.issues)
        ELSE /\ procs' = [procs EXCEPT ![p] =
                   [@ EXCEPT !.pc = "imgLookup", !.rd = cachedImages]]
             /\ UNCHANGED <<now, offStore>>
     /\ UNCHANGED <<cfg, repositories, auth, imageCache, view, store, mem,
                    offlineData, syncStatus, repositoryLabels, remote, calls,
                    user, nSyncs, nAdds, nCrashes>>

\* ---------------------------------------------------------- image cache
HasUrlNever(images, url) == FALSE
HasUrl(images, url) == \E x \in 1..Len(images) : images[x].url = url

FetchEvent(p, ok) ==
  [ev |-> "fetch", sid |-> procs[p].sid, url |-> procs[p].urls[procs[p].u],
   result |-> IF ok THEN "ok" ELSE "failed"]

ReturnEvent(p, result) ==
  [ev |-> "return", sid |-> procs[p].sid, url |-> procs[p].urls[procs[p].u],
   result |-> result]

\* cacheImage returns to the loop of cacheIssueImages: a cached image, the
\* existing one, or null after an error it caught and logged.
ReturnRethrows(pr, result) ==
  IF result = "null" THEN Abort(pr)
  ELSE [pr EXCEPT !.pc = "images", !.u = @ + 1, !.rd = <<>>, !.img = NoImage]
Return(pr, result) ==
  [pr EXCEPT !.pc = "images", !.u = @ + 1, !.rd = <<>>, !.img = NoImage]

Returns(p, result, events) ==
  /\ procs' = [procs EXCEPT ![p] = Return(@, result)]
  /\ imageLog' = imageLog \o events \o <<ReturnEvent(p, result)>>

\* cacheImage: getCachedImageByUrl returned; an existing entry is returned,
\* otherwise the image is requested.
cacheImage(p) ==
  LET pr == procs[p]
  IN /\ pr.pc = "imgLookup"
     /\ IF HasUrl(pr.rd, pr.urls[pr.u])
        THEN Returns(p, "existing", <<>>)
        ELSE /\ procs' = [procs EXCEPT ![p] = [@ EXCEPT !.pc = "imgFetch"]]
             /\ imageLog' = imageLog
     /\ UNCHANGED <<cfg, repositories, auth, cachedImages, view, now, store,
                    offStore, mem, offlineData, syncStatus, repositoryLabels,
                    remote, calls, user, nSyncs, nAdds, nCrashes>>

\* A step of cacheImage throws or gets a non-OK response: the catch logs it
\* and null is returned.
CacheFails(p, at, events) ==
  /\ procs[p].pc = at
  /\ Returns(p, "null", events)
  /\ UNCHANGED <<cfg, repositories, auth, cachedImages, view, now, store,
                 offStore, mem, offlineData, syncStatus, repositoryLabels,
                 remote, calls, user, nSyncs, nAdds, nCrashes>>

\* getCachedImageByUrl throws (store error)
cacheImageLookupFails(p) == CacheFails(p, "imgLookup", <<>>)

\* fetch(url) returned an OK response: the bytes are written to the cache
\* directory.
fetchImageOk(p) ==
  /\ procs[p].pc = "imgFetch"
  /\ imageLog' = Append(imageLog, FetchEvent(p, TRUE))
  /\ procs' = [procs EXCEPT ![p] = [@ EXCEPT !.pc = "imgWrite"]]
  /\ UNCHANGED <<cfg, repositories, auth, cachedImages, view, now, store,
                 offStore, mem, offlineData, syncStatus, repositoryLabels,
                 remote, calls, user, nSyncs, nAdds, nCrashes>>

\* fetch(url) threw or returned a non-OK response
fetchImageFails(p) == CacheFails(p, "imgFetch", <<FetchEvent(p, FALSE)>>)

\* writeFile returned: the CachedImage is built and addCachedImage reads the
\* stored list.
writeFileOk(p) ==
  LET pr == procs[p]
  IN /\ pr.pc = "imgWrite"
     /\ procs' = [procs EXCEPT ![p] =
           [@ EXCEPT !.pc = "imgAdd", !.rd = cachedImages,
                     !.img = CachedImage(pr.urls[pr.u], pr.repo, now)]]
     /\ UNCHANGED <<cfg, repositories, auth, imageCache, view, now, store,
                    offStore, mem, offlineData, syncStatus, repositoryLabels,
                    remote, calls, user, nSyncs, nAdds, nCrashes>>

\* arrayBuffer, exists, mkdir or writeFile threw
writeFileFails(p) == CacheFails(p, "imgWrite", <<>>)

\* addCachedImage: the list it read has no entry of the url and goes back to
\* the store with the image appended; otherwise nothing is written.
addCachedImage(images, image) ==
  IF HasUrl(images, image.url) THEN images ELSE Append(images, image)

addCachedImageSet(p) ==
  LET pr == procs[p]
  IN /\ pr.pc = "imgAdd"
     /\ IF HasUrl(pr.rd, pr.img.url)
        THEN /\ Returns(p, "cached", <<>>)
             /\ cachedImages' = cachedImages
        ELSE /\ cachedImages' = addCachedImage(pr.rd, pr.img)
             /\ procs' = [procs EXCEPT ![p] = [@ EXCEPT !.pc = "imgSave"]]
             /\ imageLog' = imageLog
     /\ UNCHANGED <<cfg, repositories, auth, view, now, store, offStore, mem,
                    offlineData, syncStatus, repositoryLabels, remote, calls,
                    user, nSyncs, nAdds, nCrashes>>

\* getCachedImages or store.set of addCachedImage threw
addCachedImageSetFails(p) == CacheFails(p, "imgAdd", <<>>)

\* store.save returned: cacheImage returns the image
addCachedImageSaved(p) ==
  /\ procs[p].pc = "imgSave"
  /\ Returns(p, "cached", <<>>)
  /\ UNCHANGED <<cfg, repositories, auth, cachedImages, view, now, store,
                 offStore, mem, offlineData, syncStatus, repositoryLabels,
                 remote, calls, user, nSyncs, nAdds, nCrashes>>

\* store.save of addCachedImage threw
addCachedImageSaveFails(p) == CacheFails(p, "imgSave", <<>>)

ImageStep(p) ==
  \/ cacheImage(p)
  \/ cacheImageLookupFails(p)
  \/ fetchImageOk(p)
  \/ fetchImageFails(p)
  \/ writeFileOk(p)
  \/ writeFileFails(p)
  \/ addCachedImageSet(p)
  \/ addCachedImageSetFails(p)
  \/ addCachedImageSaved(p)
  \/ addCachedImageSaveFails(p)

\* saveOfflineRepository returned: offlineData is updated and the finally
\* block ends the sync.
saveOfflineRepository(p) ==
  LET pr == procs[p]
  IN /\ pr.pc = "persist"
     /\ offlineData' = [offlineData EXCEPT ![pr.repo] = pr.rec]
     /\ syncStatus' = [syncStatus EXCEPT ![pr.repo] = "idle"]
     /\ procs' = [procs EXCEPT ![p] = [@ EXCEPT !.pc = "done"]]
     /\ UNCHANGED <<cfg, repositories, auth, imageCache, view, now, store,
                    offStore, mem, repositoryLabels, remote, calls, user,
                    nSyncs, nAdds, nCrashes>>

\* saveOfflineRepository: store.save throws after store.set has put the
\* record in the store.
saveOfflineRepositoryFails(p) == StoreFails(p, "persist")

\* The caller's await returns (or its catch has shown the alert).
settle(p) ==
  /\ procs[p].pc \in {"done", "failed"}
  /\ procs' = [procs EXCEPT ![p] = IdleProc]
  /\ UNCHANGED <<cfg, repositories, auth, imageCache, view, now, store,
                 offStore, mem, offlineData, syncStatus, repositoryLabels,
                 remote, calls, user, nSyncs, nAdds, nCrashes>>

\* ------------------------------------------------------------ user ops
\* A sync of the repository is in its publish phase.
Publishing(r) ==
  \E p \in Procs : procs[p].repo = r /\ procs[p].pc \in {"list", "call", "set", "save"}

\* addPendingReply, addLocalIssue, addPendingStateChange,
\* addPendingLabelUpdate up to the store.get of the storage service;
\* publishing remembers whether a sync of the repository was publishing.
userAdd(kind, r, n, v) ==
  /\ user.pc = "idle"
  /\ MayStart
  /\ nAdds < cfg.adds
  /\ nAdds' = nAdds + 1
  /\ now' = now + 1
  /\ user' = [pc |-> "set", op |-> "add", kind |-> kind,
              e |-> Entry(now, r, n, v), rd |-> store[kind], threw |-> FALSE,
              publishing |-> Publishing(r)]
  /\ UNCHANGED <<cfg, repositories, auth, imageCache, view, store, offStore,
                 mem, offlineData, syncStatus, repositoryLabels, remote,
                 calls, procs, nSyncs, nCrashes>>

\* removePendingReply, removeLocalIssue, removePendingStateChange,
\* removePendingLabelUpdate of an entry the user sees
userRemove(kind, x) ==
  /\ user.pc = "idle"
  /\ MayStart
  /\ nAdds < cfg.adds
  /\ x \in 1..Len(mem[kind])
  /\ nAdds' = nAdds + 1
  /\ user' = [pc |-> "set", op |-> "remove", kind |-> kind,
              e |-> mem[kind][x], rd |-> store[kind], threw |-> FALSE,
              publishing |-> FALSE]
  /\ UNCHANGED <<cfg, repositories, auth, imageCache, view, now, store,
                 offStore, mem, offlineData, syncStatus, repositoryLabels,
                 remote, calls, procs, nSyncs, nCrashes>>

\* store.set of the list the operation computed from what it read
userSet ==
  /\ user.pc = "set"
  /\ store' = [store EXCEPT ![user.kind] =
        IF user.op = "add" THEN addPendingToStore(user.kind, user.rd, user.e)
        ELSE removePending(user.rd, user.e.id)]
  /\ user' = [user EXCEPT !.pc = "save"]
  /\ UNCHANGED <<cfg, repositories, auth, imageCache, view, now, offStore,
                 mem, offlineData, syncStatus, repositoryLabels, remote,
                 calls, procs, nSyncs, nAdds, nCrashes>>

\* store.save returned: the in-memory list is updated
userSaved ==
  /\ user.pc = "save"
  /\ mem' = [mem EXCEPT ![user.kind] =
        IF user.op = "add" THEN addPendingToMemory(user.kind, @, user.e)
        ELSE removePending(@, user.e.id)]
  /\ user' = [user EXCEPT !.pc = "idle"]
  /\ UNCHANGED <<cfg, repositories, auth, imageCache, view, now, store,
                 offStore, offlineData, syncStatus, repositoryLabels, remote,
                 calls, procs, nSyncs, nAdds, nCrashes>>

\* A store call of the operation throws: the operation rejects at its await
\* and the setter behind it does not run.  threw remembers it.
UserFails(at) ==
  /\ user.pc = at
  /\ user' = [user EXCEPT !.pc = "idle", !.threw = TRUE]
  /\ UNCHANGED <<cfg, repositories, auth, imageCache, view, now, store,
                 offStore, mem, offlineData, syncStatus, repositoryLabels,
                 remote, calls, procs, nSyncs, nAdds, nCrashes>>

\* (variant) the list is updated although store.save threw
userSaveFailsShows ==
  /\ user.pc = "save"
  /\ mem' = [mem EXCEPT ![user.kind] =
        IF user.op = "add" THEN addPendingToMemory(user.kind, @, user.e)
        ELSE removePending(@, user.e.id)]
  /\ user' = [user EXCEPT !.pc = "idle", !.threw = TRUE]
  /\ UNCHANGED <<cfg, repositories, auth, imageCache, view, now, store,
                 offStore, offlineData, syncStatus, repositoryLabels, remote,
                 calls, procs, nSyncs, nAdds, nCrashes>>

\* store.get or store.set of the operation throws
userSetFails == UserFails("set")

\* store.save of the operation throws after store.set has changed the store
userSaveFails == UserFails("save")

AddInputs ==
  {<<"state", n, v>> : n \in IssueNumbers, v \in IssueStates}
    \cup {<<"labels", n, <<"bug">>>> : n \in IssueNumbers}
    \cup {<<"local", 0, "title">>}
    \cup {<<"replies", n, "body">> : n \in IssueNumbers}

\* ---------------------------------------------------- repository list
\* storage addRepository: the list that goes back to the store
addRepoToStore(repos, repo) ==
  IF HasRepo(repos, repo.id) THEN repos ELSE Append(repos, repo)

\* (variant) the repository is appended whether or not the list has its id
addRepoToMemoryAppends(prev, repo) == Append(prev, repo)

\* setRepositories of addRepository
addRepoToMemory(prev, repo) ==
  IF HasRepo(prev, repo.id) THEN prev ELSE Append(prev, repo)

\* repos.filter((r) => r.id !== repoId)
removeRepoFromStore(repos, repoId) == SelectSeq(repos, LAMBDA r : r.id # repoId)

\* addRepository / removeRepository up to the store.get of getRepositories
RepoOp(op, repo) ==
  /\ user.pc = "idle"
  /\ MayStart
  /\ nAdds < cfg.adds
  /\ nAdds' = nAdds + 1
  /\ now' = now + 1
  /\ user' = [pc |-> "repoSet", op |-> op, kind |-> "repositories",
              e |-> repo, rd |-> repositories.store, threw |-> FALSE,
              publishing |-> FALSE]
  /\ UNCHANGED <<cfg, repositories, auth, imageCache, view, store, offStore,
                 mem, offlineData, syncStatus, repositoryLabels, remote,
                 calls, procs, nSyncs, nCrashes>>

addRepository(id) == RepoOp("addRepo", Repository(id, now))

removeRepository(id) == RepoOp("removeRepo", Repository(id, 0))

\* storage addRepository: the list has been read.  With an entry of the id
\* nothing is written and setRepositories runs; otherwise the list with the
\* repository appended is set.
addRepoSet ==
  /\ user.pc = "repoSet"
  /\ user.op = "addRepo"
  /\ IF HasRepo(user.rd, user.e.id)
     THEN /\ repositories' =
               [repositories EXCEPT !.mem = addRepoToMemory(@, user.e)]
          /\ user' = [user EXCEPT !.pc = "idle"]
     ELSE /\ repositories' =
               [repositories EXCEPT !.store = addRepoToStore(user.rd, user.e)]
          /\ user' = [user EXCEPT !.pc = "repoSave"]
  /\ UNCHANGED <<cfg, auth, imageCache, view, now, store, offStore, mem,
                 offlineData, syncStatus, repositoryLabels, remote, calls,
                 procs, nSyncs, nAdds, nCrashes>>

\* store.save of storage addRepository returned: setRepositories
addRepoSaved ==
  /\ user.pc = "repoSave"
  /\ user.op = "addRepo"
  /\ repositories' = [repositories EXCEPT !.mem = addRepoToMemory(@, user.e)]
  /\ user' = [user EXCEPT !.pc = "idle"]
  /\ UNCHANGED <<cfg, auth, imageCache, view, now, store, offStore, mem,
                 offlineData, syncStatus, repositoryLabels, remote, calls,
                 procs, nSyncs, nAdds, nCrashes>>

\* storage removeRepository: the filtered list is set
removeRepoSet ==
  /\ user.pc = "repoSet"
  /\ user.op = "removeRepo"
  /\ repositories' =
       [repositories EXCEPT !.store = removeRepoFromStore(user.rd, user.e.id)]
  /\ user' = [user EXCEPT !.pc = "repoSave"]
  /\ UNCHANGED <<cfg, auth, imageCache, view, now, store, offStore, mem,
                 offlineData, syncStatus, repositoryLabels, remote, calls,
                 procs, nSyncs, nAdds, nCrashes>>

\* (variant) the repository's cached images are cleared as well
clearOfflineDataAndImages ==
  /\ user.pc = "repoSave"
  /\ user.op = "removeRepo"
  /\ offStore' = [offStore EXCEPT ![user.e.id] = NoRepo]
  /\ cachedImages' = SelectSeq(cachedImages, LAMBDA i : i.repoId # user.e.id)
  /\ user' = [user EXCEPT !.pc = "repoClear"]
  /\ UNCHANGED <<cfg, repositories, auth, imageLog, view, now, store, mem,
                 offlineData, syncStatus, repositoryLabels, remote, calls,
                 procs, nSyncs, nAdds, nCrashes>>

\* store.save returned: clearOfflineData deletes repo_{repoId}
clearOfflineData ==
  /\ user.pc = "repoSave"
  /\ user.op = "removeRepo"
  /\ offStore' = [offStore EXCEPT ![user.e.id] = NoRepo]
  /\ user' = [user EXCEPT !.pc = "repoClear"]
  /\ UNCHANGED <<cfg, repositories, auth, imageCache, view, now, store, mem,
                 offlineData, syncStatus, repositoryLabels, remote, calls,
                 procs, nSyncs, nAdds, nCrashes>>

\* store.save of clearOfflineData returned: setRepositories and
\* setOfflineData of removeRepository
removeRepoSaved ==
  /\ user.pc = "repoClear"
  /\ repositories' =
       [repositories EXCEPT !.mem = removeRepoFromStore(@, user.e.id)]
  /\ offlineData' = [offlineData EXCEPT ![user.e.id] = NoRepo]
  /\ user' = [user EXCEPT !.pc = "idle"]
  /\ UNCHANGED <<cfg, auth, imageCache, view, now, store, offStore, mem,
                 syncStatus, repositoryLabels, remote, calls, procs, nSyncs,
                 nAdds, nCrashes>>

\* ------------------------------------------------------- effective view
\* Array.prototype.find: the index of the first element that satisfies P,
\* 0 when there is none
FindIndex(s, P(_)) ==
  IF \E x \in 1..Len(s) : P(s[x])
  THEN CHOOSE x \in 1..Len(s) : P(s[x]) /\ \A y \in 1..(x - 1) : ~P(s[y])
  ELSE 0

getEffectiveIssueStateIgnoresPending(repoId, issueNumber, currentState) ==
  currentState
getEffectiveIssueState(repoId, issueNumber, currentState) ==
  LET x == FindIndex(pendingStateChanges,
                     LAMBDA c : c.repoId = repoId /\ c.issueNumber = issueNumber)
  IN IF x # 0 THEN pendingStateChanges[x].val ELSE currentState

\* The label shown for a name the catalog does not have.
Placeholder(name) == [id |-> 0, name |-> name, color |-> "6b7280"]

getEffectiveIssueLabelsKeepsSnapshot(repoId, issueNumber, currentLabels) ==
  currentLabels
getEffectiveIssueLabels(repoId, issueNumber, currentLabels) ==
  LET x == FindIndex(pendingLabelUpdates,
                     LAMBDA c : c.repoId = repoId /\ c.issueNumber = issueNumber)
      repoLabels == repositoryLabels[repoId]
      names == pendingLabelUpdates[x].val
      existing(name) == FindIndex(repoLabels, LAMBDA l : l.name = name)
  IN IF x # 0
     THEN [k \in 1..Len(names) |->
             IF existing(names[k]) # 0 THEN repoLabels[existing(names[k])]
             ELSE Placeholder(names[k])]
     ELSE currentLabels

\* The issue screen renders: it evaluates getEffectiveIssueState for the
\* issue it shows.
effectiveStateConsumes(repoId, issueNumber, currentState) ==
  /\ view' = [fn |-> "getEffectiveIssueState", repoId |-> repoId,
              issueNumber |-> issueNumber, current |-> currentState,
              queue |-> pendingStateChanges, catalog |-> <<>>,
              result |-> getEffectiveIssueState(repoId, issueNumber, currentState)]
  /\ mem' = [mem EXCEPT !["state"] =
               SelectSeq(@, LAMBDA c : ~(c.repoId = repoId
                                         /\ c.issueNumber = issueNumber))]
  /\ UNCHANGED <<cfg, repositories, auth, imageCache, now, store, offStore,
                 offlineData, syncStatus, repositoryLabels, remote, calls,
                 procs, user, nSyncs, nAdds, nCrashes>>
effectiveState(repoId, issueNumber, currentState) ==
  /\ view' = [fn |-> "getEffectiveIssueState", repoId |-> repoId,
              issueNumber |-> issueNumber, current |-> currentState,
              queue |-> pendingStateChanges, catalog |-> <<>>,
              result |-> getEffectiveIssueState(repoId, issueNumber, currentState)]
  /\ UNCHANGED <<cfg, repositories, auth, imageCache, now, store, offStore,
                 mem, offlineData, syncStatus, repositoryLabels, remote,
                 calls, procs, user, nSyncs, nAdds, nCrashes>>

\* The issue screen renders: it evaluates getEffectiveIssueLabels.
effectiveLabels(repoId, issueNumber, currentLabels) ==
  /\ view' = [fn |-> "getEffectiveIssueLabels", repoId |-> repoId,
              issueNumber |-> issueNumber, current |-> currentLabels,
              queue |-> pendingLabelUpdates,
              catalog |-> repositoryLabels[repoId],
              result |-> getEffectiveIssueLabels(repoId, issueNumber, currentLabels)]
  /\ UNCHANGED <<cfg, repositories, auth, imageCache, now, store, offStore,
                 mem, offlineData, syncStatus, repositoryLabels, remote,
                 calls, procs, user, nSyncs, nAdds, nCrashes>>

\* ---------------------------------------------------------------- init()
\* What init() leaves alone.  While it runs the Loading screen is shown, so
\* no other task runs in between its awaits.
initLeaves ==
  UNCHANGED <<cfg, now, store, offStore, syncStatus, repositoryLabels, remote,
              calls, procs, user, imageCache, view, nSyncs, nAdds, nCrashes>>

\* getToken returned
initGetToken ==
  /\ auth.pc = "getToken"
  /\ auth' = [auth EXCEPT !.pc = "getSaved", !.savedToken = auth.github_token]
  /\ UNCHANGED <<mem, offlineData>>
  /\ UNCHANGED repositories
  /\ initLeaves

\* getRepositories and the four get...FromStore returned: a saved token is
\* validated; without one the saved lists go to memory and
\* refreshOfflineData starts.
initGetSaved ==
  /\ auth.pc = "getSaved"
  /\ IF auth.savedToken # ""
     THEN /\ auth' = [auth EXCEPT !.pc = "validate", !.saved = store]
          /\ mem' = mem
          /\ UNCHANGED repositories
     ELSE /\ auth' = [auth EXCEPT !.pc = "refresh", !.saved = store]
          /\ mem' = store
          /\ repositories' = [repositories EXCEPT !.mem = repositories.store]
  /\ UNCHANGED offlineData
  /\ initLeaves

\* validateToken returned the user
validateTokenOk ==
  /\ auth.pc = "validate"
  /\ auth.online /\ auth.valid
  /\ auth' = [auth EXCEPT !.pc = "refresh", !.token = auth.savedToken,
                          !.isAuthenticated = TRUE]
  /\ mem' = auth.saved
  /\ UNCHANGED offlineData
  /\ repositories' = [repositories EXCEPT !.mem = repositories.store]
  /\ initLeaves

\* validateToken threw (the remote rejected the token, or did not answer):
\* the catch calls clearToken
validateTokenFails ==
  /\ auth.pc = "validate"
  /\ ~(auth.online /\ auth.valid)
  /\ auth' = [auth EXCEPT !.pc = "clearDelete"]
  /\ UNCHANGED <<mem, offlineData>>
  /\ UNCHANGED repositories
  /\ initLeaves

\* clearToken: store.delete("github_token")
clearTokenDelete ==
  /\ auth.pc = "clearDelete"
  /\ auth' = [auth EXCEPT !.pc = "clearSave", !.github_token = ""]
  /\ UNCHANGED <<mem, offlineData>>
  /\ UNCHANGED repositories
  /\ initLeaves

\* clearToken returned: the saved lists go to memory and refreshOfflineData
\* starts
clearTokenSaved ==
  /\ auth.pc = "clearSave"
  /\ auth' = [auth EXCEPT !.pc = "refresh"]
  /\ mem' = auth.saved
  /\ UNCHANGED offlineData
  /\ repositories' = [repositories EXCEPT !.mem = repositories.store]
  /\ initLeaves

\* refreshOfflineData: the stored records of the repositories are in
\* offlineData
refreshOfflineData ==
  /\ auth.pc = "refresh"
  /\ auth' = [auth EXCEPT !.pc = "refreshPending"]
  /\ offlineData' = offStore
  /\ UNCHANGED mem
  /\ UNCHANGED repositories
  /\ initLeaves

\* refreshOfflineData: the stored lists are in memory; the finally block of
\* init() ends the loading
refreshPending ==
  /\ auth.pc = "refreshPending"
  /\ auth' = [auth EXCEPT !.pc = "end", !.isLoading = FALSE]
  /\ mem' = store
  /\ UNCHANGED offlineData
  /\ repositories' = [repositories EXCEPT !.mem = repositories.store]
  /\ initLeaves

\* A store call of init() threw: the outer catch logs it and the finally
\* block ends the loading.
initStoreFails ==
  /\ auth.pc \in {"getToken", "getSaved", "clearDelete", "clearSave",
                  "refresh", "refreshPending"}
  /\ auth' = [auth EXCEPT !.pc = "end", !.isLoading = FALSE, !.threw = TRUE]
  /\ UNCHANGED <<mem, offlineData>>
  /\ UNCHANGED repositories
  /\ initLeaves

\* --------------------------------------------------------------- crash
\* The process dies and is started again: every task is gone and init()
\* loads the stores into memory.
Crash ==
  /\ nCrashes < MaxCrashes
  /\ InFlight > 0
  /\ nCrashes' = nCrashes + 1
  /\ procs' = [p \in Procs |-> IdleProc]
  /\ user' = IdleUser
  /\ mem' = store
  /\ repositories' = [repositories EXCEPT !.mem = repositories.store]
  /\ offlineData' = offStore
  /\ syncStatus' = [r \in RepoIds |-> "none"]
  /\ repositoryLabels' = [r \in RepoIds |-> <<>>]
  /\ UNCHANGED <<cfg, auth, imageCache, view, now, store,
                 offStore, remote, calls, nSyncs, nAdds>>

\* ------------------------------------------------------- specifications
SyncStep(p) ==
  \/ publishList(p)
  \/ publishCallOk(p)
  \/ publishCallFails(p)
  \/ publishRemoveSet(p)
  \/ publishRemoveSaved(p)
  \/ fetchLabelsOk(p)
  \/ fetchLabelsFails(p)
  \/ fetchIssuesOk(p)
  \/ fetchIssuesFails(p)
  \/ fetchCommentsOk(p)
  \/ fetchCommentsFails(p)
  \/ cacheIssueImages(p)
  \/ saveOfflineRepository(p)
  \/ settle(p)

SyncStart(p) ==
  \E r \in RepoIds : syncRepository(p, r) \/ incrementalSyncRepository(p, r)

\* One sync at a time over every initial store; remote calls may fail.
Init ==
  \E lens \in InitLens(MaxInitLen), other \in BOOLEAN, snap \in BOOLEAN :
    InitWith([overlap |-> FALSE, slots |-> {"s1"}, repos |-> RepoIds, syncs |-> 1,
              adds |-> 0], lens, other, snap)

Next == \E p \in Procs : SyncStart(p) \/ SyncStep(p)

Spec == Init /\ [][Next]_vars

\* One sync at a time; the process may crash and the store calls of a sync
\* may throw.
Total(lens) == lens["state"] + lens["labels"] + lens["local"] + lens["replies"]

InitCrash ==
  \E lens \in InitLens(1), snap \in BOOLEAN :
    InitWith([overlap |-> FALSE, slots |-> {"s1"}, repos |-> RepoIds,
              syncs |-> MaxSyncs, adds |-> 0], lens, FALSE, snap)

NextCrash ==
  \/ \E p \in Procs : SyncStart(p) \/ SyncStep(p)
  \/ \E p \in Procs : publishRemoveSetFails(p)
  \/ \E p \in Procs : publishRemoveSaveFails(p)
  \/ \E p \in Procs : saveOfflineRepositoryFails(p)
  \/ Crash

SpecCrash == InitCrash /\ [][NextCrash]_vars

\* Two syncs of the same repository overlap.
InitConc ==
  \E lens \in {l \in InitLens(1) : Total(l) <= 1}, snap \in BOOLEAN :
    InitWith([overlap |-> TRUE, slots |-> Procs, repos |-> {"r1"},
              syncs |-> MaxSyncs, adds |-> 0], lens, FALSE, snap)

NextConc == \E p \in Procs : SyncStart(p) \/ SyncStep(p)

SpecConc == InitConc /\ [][NextConc]_vars

\* Two syncs of the same repository overlap and store calls may throw;
\* every call a sync awaits returns or throws, and the event loop runs the
\* continuation of a call that has returned.
NextLive ==
  \/ \E p \in Procs : SyncStart(p) \/ SyncStep(p)
  \/ \E p \in Procs : publishRemoveSetFails(p)
  \/ \E p \in Procs : publishRemoveSaveFails(p)
  \/ \E p \in Procs : saveOfflineRepositoryFails(p)

SpecLive ==
  InitConc /\ [][NextLive]_vars /\ WF_vars(\E p \in Procs : SyncStep(p))

\* User operations overlap with each other's store calls and with a sync.
InitUser ==
  \E lens \in {l \in InitLens(1) : Total(l) <= 1} :
    InitWith([overlap |-> TRUE, slots |-> {"s1"}, repos |-> {"r1"},
              syncs |-> 1, adds |-> MaxAdds], lens, FALSE, FALSE)

NextUser ==
  \/ \E p \in Procs : SyncStart(p) \/ SyncStep(p)
  \/ \E r \in RepoIds, a \in AddInputs : userAdd(a[1], r, a[2], a[3])
  \/ \E k \in Kinds, x \in 1..2 : userRemove(k, x)
  \/ userSet
  \/ userSaved

SpecUser == InitUser /\ [][NextUser]_vars

\* User operations and a sync overlap and the store calls of the user
\* operations and of saveOfflineRepository may throw.
NextStore ==
  \/ NextUser
  \/ userSetFails
  \/ userSaveFails
  \/ \E p \in Procs : saveOfflineRepositoryFails(p)

SpecStore == InitUser /\ [][NextStore]_vars

\* The merge of incrementalSyncRepository over every prior issue set and
\* every delta: the sync has fetched the delta and awaits its comments.
MaxMergeKey == 3
MaxDeltaLen == 2

InitMerge ==
  \E S \in IssueLists(MaxMergeKey, MaxMergeKey, {1}),
     D \in IssueLists(MaxMergeKey, MaxDeltaLen, {2, 3}) :
    /\ UniqueNumbers(S)
    /\ D # <<>>
    /\ cfg = [overlap |-> FALSE, slots |-> {"s1"}, repos |-> {"r1"}, syncs |-> 1,
              adds |-> 0]
    /\ repositories = InitRepositories
    /\ auth = Authenticated
    /\ now = 50
    /\ store = EmptyQueues
    /\ mem = EmptyQueues
    /\ offStore = [r \in RepoIds |-> IF r = "r1" THEN OfflineRepo(S, 1) ELSE NoRepo]
    /\ offlineData = offStore
    /\ syncStatus = [r \in RepoIds |-> IF r = "r1" THEN "syncing" ELSE "none"]
    /\ repositoryLabels = [r \in RepoIds |-> <<>>]
    /\ remote = [r \in RepoIds |-> InitRemoteIssues]
    /\ calls = [s \in 1..1 |->
         <<[op |-> "fetchRepositoryIssues", repo |-> "r1", id |-> 0, ok |-> TRUE]>>]
    /\ procs = [p \in Procs |->
         IF p = "s1"
         THEN [IdleProc EXCEPT !.pc = "comments", !.sid = 1, !.mode = "incr",
                               !.existing = OfflineRepo(S, 1), !.issues = D,
                               !.c = 1,
                               !.pre = [queues |-> EmptyQueues,
                                        off |-> OfflineRepo(S, 1),
                                        data |-> OfflineRepo(S, 1)]]
         ELSE IdleProc]
    /\ user = IdleUser
    /\ cachedImages = <<>>
    /\ imageLog = <<>>
    /\ view = NoView
    /\ nSyncs = 1
    /\ nAdds = 0
    /\ nCrashes = 0

NextMerge ==
  \E p \in Procs :
    \/ fetchCommentsOk(p)
    \/ fetchCommentsFails(p)
    \/ saveOfflineRepository(p)
    \/ settle(p)

SpecMerge == InitMerge /\ [][NextMerge]_vars

\* Syncs of one repository one after the other: a sync that failed is
\* followed by the next attempt; between two syncs the user may remove an
\* entry he sees.  cfg keeps the queue lengths the store started with.
MaxRetryTotal == 3

InitRetry ==
  \E lens \in {l \in InitLens(2) : Total(l) <= MaxRetryTotal},
     other \in BOOLEAN, snap \in BOOLEAN :
    InitWith([overlap |-> FALSE, slots |-> {"s1"}, repos |-> {"r1"},
              syncs |-> MaxSyncs, adds |-> MaxAdds, lens |-> lens,
              other |-> other], lens, other, snap)

NextRetry ==
  \/ \E p \in Procs : SyncStart(p) \/ SyncStep(p)
  \/ \E k \in Kinds, x \in 1..MaxRetryTotal : userRemove(k, x)
  \/ userSet
  \/ userSaved

SpecRetry == InitRetry /\ [][NextRetry]_vars

\* The issue screen over every content of the state-change queue, and over
\* every content of the label-update queue and of the label catalog (the two
\* functions read nothing in common); the user removes entries in between.
MaxViewLen == 2

LabelNames == {"bug", "new"}
NameLists == UNION {[1..n -> LabelNames] : n \in 0..2}
SnapshotLabels == {<<>>, RemoteLabels}

\* Queues of at most maxLen entries, at most one per (repoId, issueNumber).
ViewQueues(kind, repos, vals, maxLen) ==
  LET keyed == UNION {[1..n -> [repoId : repos, issueNumber : IssueNumbers,
                                val : vals]] : n \in 0..maxLen}
  IN {[x \in 1..Len(q) |-> Entry(10 * KindIndex(kind) + x, q[x].repoId,
                                 q[x].issueNumber, q[x].val)] :
        q \in {k \in keyed : \A i, j \in 1..Len(k) :
                               i # j => ~SameIssue(k[i], k[j])}}

InitView ==
  \E sq \in ViewQueues("state", RepoIds, IssueStates, MaxViewLen),
     lq \in ViewQueues("labels", RepoIds, NameLists, 1),
     catalog \in {<<>>, RemoteLabels} :
    /\ sq = <<>> \/ (lq = <<>> /\ catalog = <<>>)
    /\ cfg = [overlap |-> TRUE, slots |-> {}, repos |-> {}, syncs |-> 0,
              adds |-> MaxAdds]
    /\ repositories = InitRepositories
    /\ auth = Authenticated
    /\ now = 50
    /\ store = [EmptyQueues EXCEPT !["state"] = sq, !["labels"] = lq]
    /\ mem = store
    /\ offStore = [r \in RepoIds |-> NoRepo]
    /\ offlineData = offStore
    /\ syncStatus = [r \in RepoIds |-> "none"]
    /\ repositoryLabels = [r \in RepoIds |-> IF r = "r1" THEN catalog ELSE <<>>]
    /\ remote = [r \in RepoIds |-> InitRemoteIssues]
    /\ calls = <<>>
    /\ procs = [p \in Procs |-> IdleProc]
    /\ user = IdleUser
    /\ cachedImages = <<>>
    /\ imageLog = <<>>
    /\ view = NoView
    /\ nSyncs = 0
    /\ nAdds = 0
    /\ nCrashes = 0

NextView ==
  \/ \E r \in RepoIds, n \in IssueNumbers, st \in IssueStates :
       effectiveState(r, n, st)
  \/ \E r \in RepoIds, n \in IssueNumbers, l \in SnapshotLabels :
       effectiveLabels(r, n, l)
  \/ \E k \in {"state", "labels"}, x \in 1..MaxViewLen : userRemove(k, x)
  \/ userSet
  \/ userSaved

SpecView == InitView /\ [][NextView]_vars

\* A sync, full or incremental, of a remote drawn from every listing of at
\* most MaxListLen issues and pull requests with and without comments;
\* another client may create issues while the sync fetches its pages, and
\* the fetches may fail.
MaxListLen == 3

Listings(maxLen) ==
  UNION {{[x \in 1..n |->
             [number |-> n - x + 1, state |-> "open", ver |-> 2,
              updated |-> IF (n - x) % 2 = 0 THEN 2 ELSE 0, body |-> <<>>,
              comments |-> f[x][1], pull_request |-> f[x][2]]] :
            f \in [1..n -> {0, 1} \X BOOLEAN]} : n \in 0..maxLen}

\* Another client creates an issue while the pages are fetched.
remoteCreate(r) ==
  /\ Len(remote[r]) <= MaxListLen
  /\ \E p \in Procs : procs[p].pc = "issues" /\ procs[p].repo = r
  /\ remote' = [remote EXCEPT ![r] = RemoteCreate(@)]
  /\ UNCHANGED <<cfg, repositories, auth, now, store, offStore, mem,
                 offlineData, syncStatus, repositoryLabels, calls, procs,
                 user, imageCache, view, nSyncs, nAdds, nCrashes>>

InitPages ==
  \E listing \in Listings(MaxListLen), snap \in BOOLEAN :
    /\ cfg = [overlap |-> FALSE, slots |-> {"s1"}, repos |-> {"r1"},
              syncs |-> 1, adds |-> 0]
    /\ repositories = InitRepositories
    /\ auth = Authenticated
    /\ now = 50
    /\ store = EmptyQueues
    /\ mem = EmptyQueues
    /\ offStore = [r \in RepoIds |-> IF r = "r1" /\ snap THEN InitSnapshot ELSE NoRepo]
    /\ offlineData = offStore
    /\ syncStatus = [r \in RepoIds |-> "none"]
    /\ repositoryLabels = [r \in RepoIds |-> <<>>]
    /\ remote = [r \in RepoIds |-> listing]
    /\ calls = [s \in 1..1 |-> <<>>]
    /\ procs = [p \in Procs |-> IdleProc]
    /\ user = IdleUser
    /\ cachedImages = <<>>
    /\ imageLog = <<>>
    /\ view = NoView
    /\ nSyncs = 0
    /\ nAdds = 0
    /\ nCrashes = 0

NextPages ==
  \/ \E p \in Procs : SyncStart(p)
  \/ \E p \in Procs : publishList(p)
  \/ \E p \in Procs : fetchLabelsOk(p)
  \/ \E p \in Procs : fetchIssuesOk(p)
  \/ \E p \in Procs : fetchIssuesFails(p)
  \/ \E p \in Procs : fetchCommentsOk(p)
  \/ \E p \in Procs : fetchCommentsFails(p)
  \/ \E p \in Procs : cacheIssueImages(p)
  \/ \E p \in Procs : saveOfflineRepository(p)
  \/ \E p \in Procs : settle(p)
  \/ \E r \in RepoIds : remoteCreate(r)

\* Every page request is answered or throws.
SpecPages ==
  InitPages /\ [][NextPages]_vars /\ WF_vars(\E p \in Procs : fetchIssuesOk(p))

\* The start of the app over every store: with or without a saved token,
\* which the remote accepts or not, with the remote reachable or not.
InitStart ==
  \E lens \in InitLens(1), snap \in BOOLEAN, stored \in {"", "t"},
     online \in BOOLEAN, valid \in BOOLEAN :
    /\ cfg = [overlap |-> FALSE, slots |-> {}, repos |-> RepoIds, syncs |-> 0,
              adds |-> 0]
    /\ repositories = [InitRepositories EXCEPT !.mem = <<>>]
    /\ auth = Starting(stored, online, valid)
    /\ now = 50
    /\ store = [k \in Kinds |-> InitQueue(k, lens[k], FALSE)]
    /\ mem = EmptyQueues
    /\ offStore = [r \in RepoIds |-> IF r = "r1" /\ snap THEN InitSnapshot ELSE NoRepo]
    /\ offlineData = [r \in RepoIds |-> NoRepo]
    /\ syncStatus = [r \in RepoIds |-> "none"]
    /\ repositoryLabels = [r \in RepoIds |-> <<>>]
    /\ remote = [r \in RepoIds |-> InitRemoteIssues]
    /\ calls = <<>>
    /\ procs = [p \in Procs |-> IdleProc]
    /\ user = IdleUser
    /\ cachedImages = <<>>
    /\ imageLog = <<>>
    /\ view = NoView
    /\ nSyncs = 0
    /\ nAdds = 0
    /\ nCrashes = 0

NextStart ==
  \/ initGetToken
  \/ initGetSaved
  \/ validateTokenOk
  \/ validateTokenFails
  \/ clearTokenDelete
  \/ clearTokenSaved
  \/ refreshOfflineData
  \/ refreshPending
  \/ initStoreFails

SpecStart == InitStart /\ [][NextStart]_vars

\* Full and incremental syncs, one at a time, of a repository whose issue
\* bodies reference images; every step of cacheImage may fail, nothing else
\* does.
MaxBodyLen == 2

\* The texts of at most maxLen markdown images.
Bodies(maxLen) ==
  UNION {{Markdown([x \in 1..n |-> <<"md", refs[x]>>]) : refs \in [1..n -> ImageRefs]} :
           n \in 0..maxLen}

InitImages ==
  \E b1 \in Bodies(MaxBodyLen), b2 \in Bodies(1) :
    /\ cfg = [overlap |-> FALSE, slots |-> {"s1"}, repos |-> {"r1"},
              syncs |-> MaxSyncs, adds |-> 0]
    /\ repositories = InitRepositories
    /\ auth = Authenticated
    /\ now = 50
    /\ store = EmptyQueues
    /\ mem = EmptyQueues
    /\ offStore = [r \in RepoIds |-> NoRepo]
    /\ offlineData = offStore
    /\ syncStatus = [r \in RepoIds |-> "none"]
    /\ repositoryLabels = [r \in RepoIds |-> <<>>]
    /\ remote = [r \in RepoIds |->
         <<[InitRemoteIssues[1] EXCEPT !.body = b1],
           [InitRemoteIssues[2] EXCEPT !.body = b2]>>]
    /\ calls = [s \in 1..MaxSyncs |-> <<>>]
    /\ procs = [p \in Procs |-> IdleProc]
    /\ user = IdleUser
    /\ cachedImages = <<>>
    /\ imageLog = <<>>
    /\ view = NoView
    /\ nSyncs = 0
    /\ nAdds = 0
    /\ nCrashes = 0

NextImages ==
  \E p \in Procs :
    \/ SyncStart(p)
    \/ publishList(p)
    \/ fetchLabelsOk(p)
    \/ fetchIssuesOk(p)
    \/ fetchCommentsOk(p)
    \/ cacheIssueImages(p)
    \/ ImageStep(p)
    \/ saveOfflineRepository(p)
    \/ settle(p)

SpecImages == InitImages /\ [][NextImages]_vars

\* Syncs are invoked with and without a token held: after init() has ended
\* authenticated, and after logout (or an init() that found no valid token).
LoggedOut ==
  [Authenticated EXCEPT !.github_token = "", !.savedToken = "", !.token = "",
                        !.isAuthenticated = FALSE, !.had = ""]

InitToken ==
  \E a \in {Authenticated, LoggedOut}, lens \in InitLens(1), snap \in BOOLEAN :
    /\ cfg = [overlap |-> FALSE, slots |-> {"s1"}, repos |-> RepoIds,
              syncs |-> MaxSyncs, adds |-> 0]
    /\ repositories = InitRepositories
    /\ auth = a
    /\ now = 50
    /\ store = [k \in Kinds |-> InitQueue(k, lens[k], FALSE)]
    /\ mem = store
    /\ offStore = [r \in RepoIds |-> IF r = "r1" /\ snap THEN InitSnapshot ELSE NoRepo]
    /\ offlineData = offStore
    /\ syncStatus = [r \in RepoIds |-> "none"]
    /\ repositoryLabels = [r \in RepoIds |-> <<>>]
    /\ remote = [r \in RepoIds |-> InitRemoteIssues]
    /\ calls = [s \in 1..MaxSyncs |-> <<>>]
    /\ procs = [p \in Procs |-> IdleProc]
    /\ user = IdleUser
    /\ cachedImages = <<>>
    /\ imageLog = <<>>
    /\ view = NoView
    /\ nSyncs = 0
    /\ nAdds = 0
    /\ nCrashes = 0

NextToken ==
  \/ \E p \in Procs : SyncStart(p) \/ SyncStep(p)
  \/ \E p \in Procs, r \in RepoIds : returnsWithoutToken(p, r)

SpecToken == InitToken /\ [][NextToken]_vars

\* The user adds and removes repositories, one operation at a time, while a
\* sync may run; over every repositories list, with and without a snapshot
\* of r1, with pending entries and a cached image of r1.
MaxRepoOps == 2

RepoLists ==
  {<<>>, <<Repository("r1", 0)>>, <<Repository("r2", 0)>>,
   <<Repository("r1", 0), Repository("r2", 0)>>}

InitRepos ==
  \E repos \in RepoLists, lens \in {l \in InitLens(1) : Total(l) <= 1},
     snap \in BOOLEAN :
    /\ cfg = [overlap |-> TRUE, slots |-> {"s1"}, repos |-> RepoIds,
              syncs |-> 1, adds |-> MaxRepoOps]
    /\ repositories = [store |-> repos, mem |-> repos]
    /\ auth = Authenticated
    /\ now = 50
    /\ store = [k \in Kinds |-> InitQueue(k, lens[k], FALSE)]
    /\ mem = store
    /\ offStore = [r \in RepoIds |->
         IF r = "r1" /\ snap /\ HasRepo(repos, r) THEN InitSnapshot
         ELSE NoRepo]
    /\ offlineData = offStore
    /\ syncStatus = [r \in RepoIds |-> "none"]
    /\ repositoryLabels = [r \in RepoIds |-> <<>>]
    /\ remote = [r \in RepoIds |-> InitRemoteIssues]
    /\ calls = [s \in 1..1 |-> <<>>]
    /\ procs = [p \in Procs |-> IdleProc]
    /\ user = IdleUser
    /\ cachedImages = <<CachedImage("https://h/a.png", "r1", 1)>>
    /\ imageLog = <<>>
    /\ view = NoView
    /\ nSyncs = 0
    /\ nAdds = 0
    /\ nCrashes = 0

NextRepos ==
  \/ \E p \in Procs : SyncStart(p)
  \/ \E p \in Procs : publishList(p)
  \/ \E p \in Procs : publishCallOk(p)
  \/ \E p \in Procs : publishRemoveSet(p)
  \/ \E p \in Procs : publishRemoveSaved(p)
  \/ \E p \in Procs : fetchLabelsOk(p)
  \/ \E p \in Procs : fetchIssuesOk(p)
  \/ \E p \in Procs : fetchCommentsOk(p)
  \/ \E p \in Procs : cacheIssueImages(p)
  \/ \E p \in Procs : saveOfflineRepository(p)
  \/ \E p \in Procs : settle(p)
  \/ \E r \in RepoIds : addRepository(r)
  \/ \E r \in RepoIds : removeRepository(r)
  \/ addRepoSet
  \/ addRepoSaved
  \/ removeRepoSet
  \/ clearOfflineData
  \/ removeRepoSaved

SpecRepos == InitRepos /\ [][NextRepos]_vars

\* A full sync of a repository with one issue, over every text of at most
\* MaxSegs constructs: markdown images with and without a title, img tags,
\* links and bare references, each with an absolute or a relative reference.
MaxSegs == 2

SegLists(maxLen) == UNION {[1..n -> Forms \X ImageRefs] : n \in 0..maxLen}

InitExtract ==
  \E segs \in SegLists(MaxSegs) :
    /\ cfg = [overlap |-> FALSE, slots |-> {"s1"}, repos |-> {"r1"},
              syncs |-> 1, adds |-> 0]
    /\ repositories = InitRepositories
    /\ auth = Authenticated
    /\ now = 50
    /\ store = EmptyQueues
    /\ mem = EmptyQueues
    /\ offStore = [r \in RepoIds |-> NoRepo]
    /\ offlineData = offStore
    /\ syncStatus = [r \in RepoIds |-> "none"]
    /\ repositoryLabels = [r \in RepoIds |-> <<>>]
    /\ remote = [r \in RepoIds |->
         <<[InitRemoteIssues[2] EXCEPT !.body = Markdown(segs)]>>]
    /\ calls = [s \in 1..1 |-> <<>>]
    /\ procs = [p \in Procs |-> IdleProc]
    /\ user = IdleUser
    /\ cachedImages = <<>>
    /\ imageLog = <<>>
    /\ view = NoView
    /\ nSyncs = 0
    /\ nAdds = 0
    /\ nCrashes = 0

\* references the same image.
InitShared ==
  \E b \in Bodies(1) :
    /\ cfg = [overlap |-> TRUE, slots |-> Procs, repos |-> RepoIds,
              syncs |-> MaxSyncs, adds |-> 0]
    /\ repositories = InitRepositories
    /\ auth = Authenticated
    /\ now = 50
    /\ store = EmptyQueues
    /\ mem = EmptyQueues
    /\ offStore = [r \in RepoIds |-> NoRepo]
    /\ offlineData = offStore
    /\ syncStatus = [r \in RepoIds |-> "none"]
    /\ repositoryLabels = [r \in RepoIds |-> <<>>]
    /\ remote = [r \in RepoIds |-> <<[InitRemoteIssues[2] EXCEPT !.body = b]>>]
    /\ calls = [s \in 1..MaxSyncs |-> <<>>]
    /\ procs = [p \in Procs |-> IdleProc]
    /\ user = IdleUser
    /\ cachedImages = <<>>
    /\ imageLog = <<>>
    /\ view = NoView
    /\ nSyncs = 0
    /\ nAdds = 0
    /\ nCrashes = 0

NextShared ==
  \E p \in Procs :
    \/ SyncStart(p)
    \/ publishList(p)
    \/ fetchLabelsOk(p)
    \/ fetchIssuesOk(p)
    \/ cacheIssueImages(p)
    \/ cacheImage(p)
    \/ fetchImageOk(p)
    \/ writeFileOk(p)
    \/ addCachedImageSet(p)
    \/ addCachedImageSaved(p)
    \/ saveOfflineRepository(p)
    \/ settle(p)

SpecShared == InitShared /\ [][NextShared]_vars

SpecExtract == InitExtract /\ [][NextShared]_vars

\* ================================================================ claims
Ids(s) == {s[x].id : x \in 1..Len(s)}
Numbers(s) == {s[x].number : x \in 1..Len(s)}
WithoutIds(q, ids) == SelectSeq(q, LAMBDA e : e.id \notin ids)
From(s, i) == SubSeq(s, i, Len(s))
PublishFailed(p) == procs[p].pc = "failed" /\ procs[p].q > 0

\* C1: within one sync invocation the remote writes are issued in the order
\* set-state, replace-labels, create-issue, create-comment: no write of a
\* later kind precedes a write of an earlier kind.
C1_PublishOrder ==
  \A s \in DOMAIN calls : \A i, j \in 1..Len(calls[s]) :
    (i < j /\ calls[s][i].op \in WriteOps /\ calls[s][j].op \in WriteOps)
      => OpRank(calls[s][i].op) <= OpRank(calls[s][j].op)

\* One invocation has published from all four queues.
C1_Witness ==
  \E s \in DOMAIN calls : \A op \in WriteOps :
    \E i \in 1..Len(calls[s]) : calls[s][i].op = op /\ calls[s][i].ok

\* C2: while the call of entry i is awaited, and after it has failed, the
\* stored queue is the queue the sync started from without the entries
\* 1..i-1 of this call: they are gone, entry i and the later ones are there.
C2_DurableDequeue ==
  \A p \in Procs :
    LET pr == procs[p]
    IN (pr.pc = "call" \/ PublishFailed(p)) =>
         /\ store[Kind(p)] =
              WithoutIds(pr.pre.queues[Kind(p)], Ids(SubSeq(pr.lst, 1, pr.i - 1)))
         /\ getPendingForRepo(store[Kind(p)], pr.repo) = From(pr.lst, pr.i)

\* The publish failed on the 2nd of 3 replies; the 2nd and 3rd are stored.
C2_Witness ==
  \E p \in Procs :
    /\ PublishFailed(p)
    /\ Kind(p) = "replies"
    /\ procs[p].i = 2
    /\ Len(procs[p].lst) = 3
    /\ getPendingForRepo(store["replies"], procs[p].repo) = From(procs[p].lst, 2)

\* C3: after a publish phase that failed, the in-memory queues hold for the
\* repository what the stored queues hold.
C3_MemoryMatchesStore ==
  \A p \in Procs :
    PublishFailed(p) =>
      \A k \in Kinds :
        getPendingForRepo(mem[k], procs[p].repo)
          = getPendingForRepo(store[k], procs[p].repo)

\* The last record of issue number n in a delta.
LastOf(d, n) ==
  d[CHOOSE x \in 1..Len(d) :
      d[x].number = n /\ \A y \in (x + 1)..Len(d) : d[y].number # n]

\* C4: the merged issue set has the keys of the prior snapshot and of the
\* delta, each once; it holds the delta's record at every number of the
\* delta and the prior record at every other number.
C4_MergeRightBiased ==
  \A p \in Procs :
    LET pr == procs[p]
        S == pr.existing.issues
        D == pr.issues
        M == pr.rec.issues
    IN (pr.mode = "incr" /\ pr.pc \in {"persist", "done"}) =>
         /\ Numbers(M) = Numbers(S) \cup Numbers(D)
         /\ UniqueNumbers(M)
         /\ \A x \in 1..Len(M) :
              IF M[x].number \in Numbers(D) THEN M[x] = LastOf(D, M[x].number)
              ELSE \E y \in 1..Len(S) : S[y] = M[x]

\* A delta overwrote a stale record and left another issue untouched.
C4_Witness ==
  \E p \in Procs :
    LET pr == procs[p]
    IN /\ pr.mode = "incr"
       /\ pr.pc = "persist"
       /\ Numbers(pr.existing.issues) \cap Numbers(pr.issues) # {}
       /\ Numbers(pr.existing.issues) \ Numbers(pr.issues) # {}
       /\ Numbers(pr.issues) \ Numbers(pr.existing.issues) # {}
       /\ offStore[pr.repo].issues = pr.rec.issues

Keyed == {"state", "labels"}
OnePerIssue(q) == \A x, y \in 1..Len(q) : SameIssue(q[x], q[y]) => x = y
OfIssue(q, e) == SelectSeq(q, LAMBDA c : SameIssue(c, e))

C5_Step ==
  /\ \A k \in Keyed : OnePerIssue(store'[k]) /\ OnePerIssue(mem'[k])
  /\ (user.pc = "set" /\ user'.pc = "save" /\ user.op = "add" /\ user.kind \in Keyed)
       => OfIssue(store'[user.kind], user.e) = <<user.e>>
  /\ (user.pc = "save" /\ user'.pc = "idle" /\ user.op = "add" /\ user.kind \in Keyed)
       => OfIssue(mem'[user.kind], user.e) = <<user.e>>

\* C5: every step leaves at most one state change and one label update per
\* (repoId, issueNumber) in the stored and in the in-memory queue, and an
\* add leaves its new entry as the only one of its issue.
C5_OnePerIssue == [][C5_Step]_vars

\* An add has replaced the entry of the same issue in the store.
C5_Witness ==
  /\ user.pc = "save"
  /\ user.op = "add"
  /\ user.kind \in Keyed
  /\ OfIssue(user.rd, user.e) # <<>>
  /\ OfIssue(store[user.kind], user.e) = <<user.e>>

\* C6: an entry whose remote call succeeded in one sync invocation is not
\* sent again by a later invocation.
C6_NeverReplayed ==
  \A s, t \in DOMAIN calls :
    s < t =>
      \A i \in 1..Len(calls[s]), j \in 1..Len(calls[t]) :
        (calls[s][i].ok /\ calls[s][i].op \in WriteOps)
          => ~(calls[t][j].op = calls[s][i].op /\ calls[t][j].id = calls[s][i].id)

\* C7: over all sync invocations, overlapping ones included, each queued
\* entry has at most one successful remote call.
C7_PublishedAtMostOnce ==
  \A s, t \in DOMAIN calls :
    \A i \in 1..Len(calls[s]), j \in 1..Len(calls[t]) :
      (<<s, i>> # <<t, j>> /\ calls[s][i].ok /\ calls[t][j].ok
         /\ calls[s][i].op \in WriteOps)
        => ~(calls[t][j].op = calls[s][i].op /\ calls[t][j].id = calls[s][i].id)

\* C8: a sync that has failed left the repository's record as it was when
\* the sync started, in the store and in offlineData.
C8_FailureKeepsSnapshot ==
  \A p \in Procs :
    procs[p].pc = "failed" =>
      /\ offStore[procs[p].repo] = procs[p].pre.off
      /\ offlineData[procs[p].repo] = procs[p].pre.data

\* A sync of a repository with a snapshot failed while fetching, after its
\* publish phase had sent something.
C8_Witness ==
  \E p \in Procs :
    /\ procs[p].pc = "failed"
    /\ procs[p].q = 0
    /\ procs[p].pre.off.present
    /\ Len(calls[procs[p].sid]) >= 3
    /\ offStore[procs[p].repo] = procs[p].pre.off

\* C9: a failed remote call is the last call of its invocation; after a
\* failure in the publish phase the failing entry, the entries behind it
\* and the repository's entries in the later queues are all still stored.
C9_AbortOnFirstFailure ==
  /\ \A s \in DOMAIN calls : \A i \in 1..Len(calls[s]) :
       ~calls[s][i].ok => i = Len(calls[s])
  /\ \A p \in Procs :
       LET pr == procs[p]
       IN PublishFailed(p) =>
            /\ Ids(From(pr.lst, pr.i)) \subseteq Ids(store[Kind(p)])
            /\ \A q \in (pr.q + 1)..4 :
                 getPendingForRepo(store[KindOrder[q]], pr.repo)
                   = getPendingForRepo(pr.pre.queues[KindOrder[q]], pr.repo)

\* A publish failed with an entry behind the failing one and with a later
\* queue that is not empty.
C9_Witness ==
  \E p \in Procs :
    LET pr == procs[p]
    IN /\ PublishFailed(p)
       /\ pr.i < Len(pr.lst)
       /\ pr.i > 1
       /\ \E q \in (pr.q + 1)..4 :
            getPendingForRepo(store[KindOrder[q]], pr.repo) # <<>>
       /\ ~calls[pr.sid][Len(calls[pr.sid])].ok

C10_Step ==
  /\ \A r \in RepoIds :
       (offStore[r].present /\ offStore'[r].present)
         => offStore'[r].last_synced >= offStore[r].last_synced
  /\ \A p \in Procs :
       (procs[p].pc # "failed" /\ procs'[p].pc = "failed") => ~procs[p].wrote

\* C10: the stored last_synced of a repository never decreases, and a sync
\* invocation that fails has not changed it.
C10_LastSyncedOnlyOnSuccess == [][C10_Step]_vars

\* ------------------------------------------------------ sync and queues
\* The record of issue number n in a list of issues.
RecordsOf(issues, n) ==
  {issues[x] : x \in {y \in 1..Len(issues) : issues[y].number = n}}

\* C11: when a sync has completed successfully (no entry was added while it
\* ran), the stored and the in-memory queues hold no entry of the repository
\* and, for every issue that had a state change queued, the snapshot holds
\* the record this sync fetched, in the state that was queued.
C11_SyncedQueuesEmpty ==
  \A p \in Procs :
    LET pr == procs[p]
    IN pr.pc = "done" =>
         /\ \A k \in Kinds :
              /\ getPendingForRepo(store[k], pr.repo) = <<>>
              /\ getPendingForRepo(mem[k], pr.repo) = <<>>
         /\ \A x \in 1..Len(pr.pre.queues["state"]) :
              LET e == pr.pre.queues["state"][x]
              IN e.repoId = pr.repo =>
                   /\ RecordsOf(pr.issues, e.issueNumber) # {}
                   /\ RecordsOf(offStore[pr.repo].issues, e.issueNumber)
                        = RecordsOf(pr.issues, e.issueNumber)
                   /\ RecordsOf(offlineData[pr.repo].issues, e.issueNumber)
                        = RecordsOf(pr.issues, e.issueNumber)
                   /\ \A ri \in RecordsOf(pr.issues, e.issueNumber) :
                        ri.state = e.val

\* The reads of an invocation, in order.
ReadsOf(sid) ==
  [x \in 1..Len(SelectSeq(calls[sid], LAMBDA c : c.op \in ReadOps)) |->
     SelectSeq(calls[sid], LAMBDA c : c.op \in ReadOps)[x].op]

\* What a full sync of a remote that does not change stores: every issue
\* (no pull request) with the comments it has.
FullSnapshot(listing) ==
  [x \in 1..Len(realIssues(listing)) |->
     [Snapshot(realIssues(listing)[x]) EXCEPT
        !.comments_data = realIssues(listing)[x].comments]]

WithComments(issues) == SelectSeq(issues, LAMBDA i : i.comments > 0)

C17_Step ==
  \A p \in Procs :
    /\ \A r \in RepoIds :
         ~offlineData[r].present =>
           (incrementalSyncRepository(p, r) <=> syncRepository(p, r))
    /\ (/\ ~procs[p].pre.data.present
        /\ procs[p].pc = "persist"
        /\ procs'[p].pc = "done") =>
         /\ procs[p].mode = "full"
         /\ ReadsOf(procs[p].sid) =
              <<"fetchRepositoryLabels", "fetchRepositoryIssues">>
                \o [x \in 1..Len(WithComments(procs[p].issues)) |->
                      "fetchIssueComments"]
         /\ repositoryLabels[procs[p].repo] = RemoteLabels
         /\ procs[p].urls = uniqueUrls(procs[p].issues)
         /\ procs[p].issues = FullSnapshot(remote[procs[p].repo])
         /\ offStore'[procs[p].repo].issues = procs[p].issues
         /\ offlineData'[procs[p].repo] = offStore'[procs[p].repo]

\* C17: on a repository without a snapshot a step is the start of an
\* incremental sync exactly when it is the start of a full sync, and the
\* invocation then publishes, fetches the labels, all issues and their
\* comments, caches the images and replaces the snapshot by what it fetched.
C17_IncrementalFallsBackToFull == [][C17_Step]_vars

\* A sync of a repository that had no snapshot is over and has stored one.
C17_Witness ==
  \E p \in Procs :
    /\ procs[p].pc = "done"
    /\ ~procs[p].pre.data.present
    /\ procs[p].mode = "full"
    /\ offlineData[procs[p].repo].present
    /\ \E i \in 1..Len(calls[procs[p].sid]) :
         calls[procs[p].sid][i].op \in WriteOps

\* The entries of the repository the store started with.
OriginalEntries(repo) ==
  UNION {{getPendingForRepo(InitQueue(k, cfg.lens[k], cfg.other), repo)[x] :
            x \in 1..Len(getPendingForRepo(InitQueue(k, cfg.lens[k], cfg.other),
                                           repo))} : k \in Kinds}

\* The successful remote writes of entry id, over all invocations.
OkWrites(id) ==
  UNION {{<<sid, i>> : i \in {j \in 1..Len(calls[sid]) :
                                 /\ calls[sid][j].id = id
                                 /\ calls[sid][j].op \in WriteOps
                                 /\ calls[sid][j].ok}} : sid \in DOMAIN calls}

PublishComplete(pr) ==
  pr.q = 0 /\ pr.pc \notin {"idle"}

\* C18: as long as the user removes nothing, no entry is written to the
\* remote successfully twice; an invocation writes only entries that were in
\* the stored queue when it started, in the kind order; and once an
\* invocation has completed its publish phase, every entry the store started
\* with has exactly one successful remote write over all invocations.
C18_RetryResumes ==
  nAdds = 0 =>
    \A p \in Procs :
      LET pr == procs[p]
          log == IF pr.pc = "idle" THEN <<>> ELSE calls[pr.sid]
      IN /\ \A e \in OriginalEntries("r1") : Cardinality(OkWrites(e.id)) <= 1
         /\ \A i \in 1..Len(log) :
              log[i].op \in WriteOps =>
                /\ \E k \in Kinds :
                     /\ RemoteOp(k) = log[i].op
                     /\ log[i].id \in Ids(getPendingForRepo(pr.pre.queues[k],
                                                            pr.repo))
                /\ \A j \in 1..(i - 1) : OpRank(log[j].op) <= OpRank(log[i].op)
         /\ PublishComplete(pr) =>
              \A e \in OriginalEntries(pr.repo) :
                Cardinality(OkWrites(e.id)) = 1

\* The first sync failed on its second write; the second sync has published
\* the rest.
C18_Witness ==
  /\ nAdds = 0
  /\ Len(calls[1]) = 2
  /\ calls[1][1].ok
  /\ ~calls[1][2].ok
  /\ \E p \in Procs :
       /\ procs[p].sid = 2
       /\ PublishComplete(procs[p])
       /\ Len(calls[2]) >= 2
       /\ calls[2][1].id = calls[1][2].id
       /\ calls[2][1].ok

\* ----------------------------------------------------------- sync status
Running(p) == procs[p].pc \notin {"idle", "done", "failed"}
Ended(p) == procs[p].pc \in {"done", "failed"}

C19_Finally ==
  \A p \in Procs :
    (Running(p) /\ procs'[p].pc \in {"done", "failed"})
      => syncStatus'[procs[p].repo] = "idle"

C19_Quiet ==
  \A r \in RepoIds :
    (\A p \in Procs : Running(p) => procs[p].repo # r)
      => syncStatus[r] # "syncing"

\* C19: every sync invocation, which sets syncing to true when it starts,
\* reaches its end, successful or failed (no invocation runs forever), and
\* sets syncing to false there; while no sync of a repository is in flight
\* its status is not syncing.
C19_SyncingEnds ==
  /\ \A p \in Procs : Running(p) ~> Ended(p)
  /\ [][C19_Finally]_vars
  /\ []C19_Quiet

\* A sync has failed on a store call after a successful remote write and
\* the status is back to not syncing.
C19_Witness ==
  \E p \in Procs :
    /\ procs[p].pc = "failed"
    /\ calls[procs[p].sid] # <<>>
    /\ calls[procs[p].sid][Len(calls[procs[p].sid])].ok
    /\ syncStatus[procs[p].repo] = "idle"
    /\ \A o \in Procs : ~Running(o)

\* C20: nothing keeps a second sync of a repository from starting while one
\* is in flight: whenever a sync runs and the other slot is free, the start
\* of a second sync of the same repository is enabled.
C20_NoMutualExclusion ==
  \A r \in RepoIds :
    (/\ Running("s1")
     /\ procs["s1"].repo = r
     /\ procs["s2"].pc = "idle"
     /\ nSyncs < cfg.syncs)
      => ENABLED syncRepository("s2", r)

\* Two syncs of the repository overlapped; one has ended and set syncing
\* to false, the other is still running.
C20_Witness ==
  \E p, o \in Procs :
    /\ Running(p)
    /\ Ended(o)
    /\ procs[o].repo = procs[p].repo
    /\ syncStatus[procs[p].repo] = "idle"

\* ------------------------------------------------------ overlapping syncs
C21_Step ==
  \A p \in Procs :
    (procs[p].mode = "incr" /\ procs[p].pc # "persist"
       /\ procs'[p].pc = "persist") =>
      /\ procs[p].pre.data.present
      /\ offStore'[procs[p].repo].issues
           = Merge(procs[p].pre.data.issues, procs'[p].issues)

\* C21: the record an incremental sync writes is the merge of what it
\* fetched into the snapshot offlineData held when the sync was invoked,
\* whatever the store holds at the time of the write.
C21_StaleMergeOverwrites == [][C21_Step]_vars

\* The other sync has stored a snapshot; the incremental sync has then
\* written its own record over it, and an issue is stored in an older
\* version than the other sync had stored.
C21_Witness ==
  \E p, o \in Procs :
    /\ p # o
    /\ procs[p].mode = "incr"
    /\ procs[p].pc \in {"persist", "done"}
    /\ procs[o].pc = "done"
    /\ procs[o].repo = procs[p].repo
    /\ procs[o].rec.last_synced < procs[p].rec.last_synced
    /\ offStore[procs[p].repo] = procs[p].rec
    /\ \E x \in 1..Len(procs[o].rec.issues), y \in 1..Len(procs[p].rec.issues) :
         /\ procs[o].rec.issues[x].number = procs[p].rec.issues[y].number
         /\ procs[o].rec.issues[x].ver > procs[p].rec.issues[y].ver

\* ---------------------------------------------------------------- start
\* C24: when the app starts with a saved token and a synced snapshot while
\* the remote does not answer, init() (no store call of which threw) ends
\* authenticated, with the saved token still in the store and the snapshots
\* in offlineData, and the issue screens are rendered.
C24_OfflineBrowsing ==
  (/\ auth.pc = "end"
   /\ auth.had # ""
   /\ ~auth.online
   /\ offStore["r1"].present
   /\ ~auth.threw) =>
    /\ auth.isAuthenticated
    /\ auth.github_token = auth.had
    /\ offlineData = offStore
    /\ AppRoutes = "Routes"

\* ------------------------------------------------- adds during a publish
Published(e) ==
  \E s \in DOMAIN calls : \E i \in 1..Len(calls[s]) :
    calls[s][i].ok /\ calls[s][i].op \in WriteOps /\ calls[s][i].id = e.id

Holds(q, e) == \E x \in 1..Len(q) : q[x] = e

\* C33: an entry the user queued for a repository while a sync of it was
\* publishing is, once the add and every sync have ended, published or in
\* both the stored and the in-memory queue.
C33_AddNotLost ==
  (/\ user.pc = "idle"
   /\ user.op = "add"
   /\ user.publishing
   /\ \A p \in Procs : procs[p].pc \in {"idle", "done", "failed"}) =>
    \/ Published(user.e)
    \/ Holds(store[user.kind], user.e) /\ Holds(mem[user.kind], user.e)

\* ------------------------------------------------ syncs of two repositories
\* Syncs of r1 and r2 overlap; every queue holds an entry of r2 and at most
\* one queue holds an entry of r1.
InitAcross ==
  \E lens \in {l \in InitLens(1) : Total(l) <= 1}, snap \in BOOLEAN :
    InitWith([overlap |-> TRUE, slots |-> Procs, repos |-> RepoIds,
              syncs |-> MaxSyncs, adds |-> 0], lens, TRUE, snap)

SpecAcross == InitAcross /\ [][NextConc]_vars

\* Some sync is running for the repository.
SyncOf(r) == \E p \in Procs : procs[p].pc # "idle" /\ procs[p].repo = r

C34_Step ==
  /\ \A k \in Kinds : \A x \in 1..Len(store[k]) :
       Holds(store'[k], store[k][x]) \/ Published(store[k][x])
  /\ \A k \in Kinds : \A x \in 1..Len(store'[k]) :
       Published(store'[k][x]) => Holds(store[k], store'[k][x])
  /\ \A r \in RepoIds :
       ~SyncOf(r) => offStore'[r] = offStore[r] /\ offlineData'[r] = offlineData[r]

\* C34: a sync leaves the other repository's stored entries and snapshot
\* alone, also when syncs of both repositories overlap: a stored entry is
\* removed only once it is published, and an entry that was removed after
\* its publish does not come back into the stored list.
C34_OtherRepoUntouched == [][C34_Step]_vars

\* ------------------------------------------------------------ sync cursor
\* Versions another client's edits can take an issue to.
MaxVer == 3

\* Another client changes an issue on GitHub: the remote stamps it with the
\* time of the change.
remoteEdit(r, n) ==
  /\ r \in cfg.repos
  /\ \E x \in 1..Len(remote[r]) : remote[r][x].number = n /\ remote[r][x].ver < MaxVer
  /\ remote' = [remote EXCEPT ![r] = Touch(@, n, "")]
  /\ now' = now + 1
  /\ UNCHANGED <<cfg, repositories, auth, store, offStore, mem, offlineData,
                 syncStatus, repositoryLabels, calls, procs, user, imageCache,
                 view, nSyncs, nAdds, nCrashes>>

\* Syncs of r1 run one after the other while issues change on the remote.
InitCursor ==
  \E lens \in {l \in InitLens(1) : Total(l) <= 1}, snap \in BOOLEAN :
    InitWith([overlap |-> FALSE, slots |-> {"s1"}, repos |-> {"r1"},
              syncs |-> MaxSyncs, adds |-> 0], lens, FALSE, snap)

NextCursor ==
  \/ \E p \in Procs : SyncStart(p) \/ SyncStep(p)
  \/ \E r \in RepoIds, n \in IssueNumbers : remoteEdit(r, n)

SpecCursor == InitCursor /\ [][NextCursor]_vars

\* The snapshot holds the issue as the remote has it.
Reflected(rec, ri) ==
  \E x \in 1..Len(rec.issues) :
    rec.issues[x].number = ri.number /\ rec.issues[x].ver = ri.ver

\* C38: when an incremental sync that started from the record of an earlier
\* sync has ended successfully, the snapshot reflects every remote issue
\* whose last change is older than the last_synced it started from.
C38_CursorIsHighWaterMark ==
  \A p \in Procs :
    (/\ procs[p].pc = "done"
     /\ procs[p].mode = "incr"
     /\ procs[p].sid > 1) =>
      \A x \in 1..Len(remote[procs[p].repo]) :
        LET ri == remote[procs[p].repo][x]
        IN (~ri.pull_request /\ ri.updated < procs[p].existing.last_synced)
             => Reflected(offStore[procs[p].repo], ri)

\* ------------------------------------------------------------- no token
\* C37: while no token is held, an invocation of a sync makes no remote
\* call, leaves the stored and the in-memory queues, the snapshots (with
\* their last_synced) and the status slots as they are, and starts no task.
C37_NoTokenNoEffect ==
  [][auth.token = "" =>
       /\ calls' = calls
       /\ remote' = remote
       /\ store' = store
       /\ mem' = mem
       /\ offStore' = offStore
       /\ offlineData' = offlineData
       /\ syncStatus' = syncStatus
       /\ procs' = procs]_vars

\* Syncs were invoked without a token, with an entry queued.
C37_Witness ==
  /\ auth.token = ""
  /\ nSyncs = MaxSyncs
  /\ \E k \in Kinds : store[k] # <<>>
  /\ \A s \in DOMAIN calls : calls[s] = <<>>

\* ------------------------------------------------------- repository list
UniqueIds(repos) == \A x, y \in 1..Len(repos) : repos[x].id = repos[y].id => x = y

C32_Step ==
  (/\ user.pc = "repoSet"
   /\ user.op = "addRepo"
   /\ HasRepo(user.rd, user.e.id)
   /\ user' # user) =>
    /\ user'.pc = "idle"
    /\ repositories' = repositories

\* C32: the stored and the in-memory repositories list never hold two
\* entries of an id, and adding a repository whose id is stored leaves both
\* lists as they are, the entry's added_at included.
C32_AddIsIdempotent ==
  /\ [](UniqueIds(repositories.store) /\ UniqueIds(repositories.mem))
  /\ [][C32_Step]_vars

\* A repository that was stored has been added again, at a later time.
C32_Witness ==
  /\ user.pc = "idle"
  /\ user.op = "addRepo"
  /\ HasRepo(user.rd, user.e.id)
  /\ HasRepo(repositories.mem, user.e.id)
  /\ \A x \in 1..Len(repositories.store) :
       repositories.store[x].added_at < user.e.added_at

OtherRepos(repos, id) == SelectSeq(repos, LAMBDA r : r.id # id)

C36_Step ==
  (user' # user /\ user'.op = "removeRepo") =>
    LET id == user'.e.id
    IN /\ store' = store
       /\ mem' = mem
       /\ cachedImages' = cachedImages
       /\ \A r \in RepoIds \ {id} :
            offStore'[r] = offStore[r] /\ offlineData'[r] = offlineData[r]
       /\ OtherRepos(repositories'.store, id) = OtherRepos(repositories.store, id)
       /\ OtherRepos(repositories'.mem, id) = OtherRepos(repositories.mem, id)
       /\ user.pc = "repoSet" => ~HasRepo(repositories'.store, id)
       /\ user.pc = "repoSave" => ~offStore'[id].present
       /\ user.pc = "repoClear" =>
            /\ ~HasRepo(repositories'.store, id)
            /\ ~HasRepo(repositories'.mem, id)
            /\ ~offlineData'[id].present

\* C36: removeRepository takes the repository's entry out of the stored and
\* the in-memory list and deletes its Offline Repository record; no step of
\* it changes a pending queue, the cached images, or the entry or record of
\* another repository.
C36_RemoveFrame == [][C36_Step]_vars

\* r1 has been removed; a pending entry and a cached image of r1 are still
\* stored.
C36_Witness ==
  /\ user.pc = "idle"
  /\ user.op = "removeRepo"
  /\ user.e.id = "r1"
  /\ HasRepo(user.rd, "r1")
  /\ ~HasRepo(repositories.store, "r1")
  /\ \E k \in Kinds : \E x \in 1..Len(store[k]) : store[k][x].repoId = "r1"
  /\ \E x \in 1..Len(cachedImages) : cachedImages[x].repoId = "r1"

\* C35: whenever no operation is in flight, a stored Offline Repository
\* record and an offlineData entry exist only for repositories of the
\* repositories list.
C35_SnapshotOnlyOfListed ==
  InFlight = 0 =>
    \A r \in RepoIds :
      /\ offStore[r].present => HasRepo(repositories.store, r)
      /\ offlineData[r].present => HasRepo(repositories.mem, r)

\* ------------------------------------------------------------ phase order
C27_WritesFirst ==
  \A s \in DOMAIN calls : \A i, j \in 1..Len(calls[s]) :
    (i < j /\ calls[s][i].op \in ReadOps) => calls[s][j].op \notin WriteOps

C27_Step ==
  /\ \A p \in Procs :
       procs'[p].pc = "persist" /\ procs[p].pc # "persist" =>
         /\ procs'[p].rec = offStore'[procs'[p].repo]
         /\ procs'[p].rec.last_synced = now
  /\ \A p \in Procs :
       procs[p].pc \in {"persist", "done"} =>
         calls'[procs[p].sid] = calls[procs[p].sid]
  /\ \A r \in RepoIds :
       offlineData'[r] # offlineData[r] =>
         \E p \in Procs :
           /\ procs[p].repo = r
           /\ procs[p].pc = "persist" /\ procs'[p].pc = "done"
           /\ offStore[r] = procs[p].rec
           /\ offlineData'[r] = procs[p].rec
           /\ offStore'[r] = offStore[r]

\* C27: within one sync invocation every remote write comes before the
\* first remote read, no remote call is made once the record to store has
\* been built, and offlineData changes only in the step after
\* saveOfflineRepository has returned, to the record the store then holds.
C27_PhaseOrder == []C27_WritesFirst /\ [][C27_Step]_vars

\* A sync that wrote, read labels, issues and comments, saved and updated
\* offlineData.
C27_Witness ==
  \E p \in Procs :
    /\ procs[p].pc = "done"
    /\ offlineData[procs[p].repo] = procs[p].rec
    /\ \E i \in 1..Len(calls[procs[p].sid]) :
         calls[procs[p].sid][i].op \in WriteOps
    /\ \E i \in 1..Len(calls[procs[p].sid]) :
         calls[procs[p].sid][i].op = "fetchIssueComments"

\* ------------------------------------------------------- store, then memory
C30_Step ==
  /\ \A k \in Kinds :
       (mem'[k] # mem[k] /\ user' # user) =>
         /\ user.pc = "save" /\ user.kind = k
         /\ user'.pc = "idle" /\ ~user'.threw
         /\ store' = store
  /\ (user.pc = "save" /\ user'.pc = "idle" /\ ~user'.threw) =>
       IF user.op = "add"
       THEN /\ mem'[user.kind] # <<>>
            /\ mem'[user.kind][Len(mem'[user.kind])] = user.e
       ELSE user.e.id \notin {mem'[user.kind][x].id :
                                x \in 1..Len(mem'[user.kind])}
  /\ (user' # user /\ user'.threw) => mem' = mem
  /\ \A r \in RepoIds :
       offlineData'[r] # offlineData[r] =>
         \E p \in Procs :
           /\ procs[p].repo = r
           /\ procs[p].pc = "persist" /\ procs'[p].pc = "done"
           /\ offStore' = offStore
  /\ \A p \in Procs :
       (procs[p].pc = "persist" /\ procs'[p].pc = "failed") =>
         offlineData' = offlineData

\* C30: a user's add or remove changes the in-memory list only in the step
\* after store.set and store.save have returned, and saveOfflineRepository
\* has returned before offlineData changes; when a store call of the
\* operation throws, the in-memory list (offlineData for the snapshot save)
\* stays as it was.
C30_StoreFirst == [][C30_Step]_vars

\* store.save of a user operation threw after store.set had changed the
\* stored list: the in-memory list is the old one.
C30_Witness ==
  /\ user.pc = "idle"
  /\ user.threw
  /\ store[user.kind] # mem[user.kind]
RECURSIVE Flat(_)
\* The entries of the pages, in page order.
Flat(pages) ==
  IF pages = <<>> THEN <<>> ELSE Head(pages).raw \o Flat(Tail(pages))

NonPr(entries) == SelectSeq(entries, LAMBDA e : e.pull_request = FALSE)

C28_Step ==
  \A p \in Procs :
    (/\ procs[p].pc = "issues"
     /\ procs'[p] # procs[p]
     /\ procs'[p].pc # "failed") =>
      LET pg == procs'[p].pages
          k == Len(pg)
      IN /\ k = Len(procs[p].pages) + 1
         /\ pg[k].page = k
         /\ \A j \in 1..(k - 1) : Len(pg[j].raw) = perPage
         /\ Len(pg[k].raw) = perPage <=> procs'[p].pc = "issues"
         /\ procs'[p].pc # "issues" =>
              procs'[p].issues = SnapshotsOf(NonPr(Flat(pg)))

\* C28: the pages are requested in the order 1, 2, ...; the fetch goes on
\* after every full page, of pull requests only or not, and returns after
\* the first page shorter than the page size, with the entries of all pages
\* that are no pull requests, in page order; the fetch ends.
C28_PagedFetch ==
  /\ [][C28_Step]_vars
  /\ \A p \in Procs : procs[p].pc = "issues" ~> procs[p].pc # "issues"

\* A fetch returned issues after more than one page, one of them a full page
\* of pull requests.
C28_Witness ==
  \E p \in Procs :
    /\ procs[p].pc \in {"comments", "images", "persist"}
    /\ Len(procs[p].pages) >= 2
    /\ procs[p].issues # <<>>
    /\ \E j \in 1..Len(procs[p].pages) :
         /\ Len(procs[p].pages[j].raw) = perPage
         /\ NonPr(procs[p].pages[j].raw) = <<>>
    /\ Len(NonPr(Flat(procs[p].pages))) < Len(Flat(procs[p].pages))

ProgressOf(trace) == SelectSeq(trace, LAMBDA e : e.ev = "progress")
RequestsOf(trace) == SelectSeq(trace, LAMBDA e : e.ev = "comments")
CommentCalls(sid) ==
  SelectSeq(calls[sid], LAMBDA c : c.op = "fetchIssueComments")

\* C29: the loop over the fetched issues reports progress (i, n) for the
\* i-th of n issues, in fetch order; the comments of an issue are requested
\* right after its progress report and only when its comment count is above
\* zero; an issue with a count of zero keeps empty comments_data; the calls
\* of the comments endpoint are the requests, in order.
C29_CommentsLoop ==
  \A p \in Procs :
    LET pr == procs[p]
        tr == pr.trace
        is == pr.issues
        pg == ProgressOf(tr)
        rq == RequestsOf(tr)
        cl == CommentCalls(pr.sid)
    IN pr.pc # "idle" =>
         /\ \A k \in 1..Len(pg) :
              /\ pg[k].current = k
              /\ pg[k].total = Len(is)
              /\ pg[k].number = is[k].number
         /\ \A x \in 1..Len(tr) :
              tr[x].ev = "comments" =>
                /\ x > 1
                /\ tr[x - 1].ev = "progress"
                /\ tr[x - 1].number = tr[x].number
                /\ is[tr[x - 1].current].comments > 0
         /\ \A x \in 1..Len(tr) :
              (tr[x].ev = "progress" /\ is[tr[x].current].comments > 0) =>
                x < Len(tr) /\ tr[x + 1].ev = "comments"
         /\ Len(cl) = IF pr.pc = "comments" THEN Len(rq) - 1 ELSE Len(rq)
         /\ \A k \in 1..Len(cl) : cl[k].id = rq[k].number
         /\ \A x \in 1..Len(is) :
              is[x].comments = 0 => is[x].comments_data = 0
         /\ pr.pc \in {"images", "persist", "done"} =>
              /\ Len(pg) = Len(is)
              /\ \A x \in 1..Len(is) :
                   is[x].comments > 0 => is[x].comments_data > 0

\* The loop is over for an issue with comments and one behind it without.
C29_Witness ==
  \E p \in Procs :
    /\ procs[p].pc = "done"
    /\ Len(procs[p].issues) >= 2
    /\ procs[p].issues[1].comments > 0
    /\ procs[p].issues[2].comments = 0
    /\ Len(CommentCalls(procs[p].sid)) = 1
    /\ Len(ProgressOf(procs[p].trace)) = Len(procs[p].issues)

\* C25: no stored Offline Repository holds two issue snapshots of the same
\* issue number.
C25_UniqueNumbers ==
  \A r \in RepoIds : UniqueNumbers(offStore[r].issues)

\* ------------------------------------------------------------ repetition
Records(issues) == {issues[x] : x \in 1..Len(issues)}

\* The first sync invocation has succeeded: it made calls and none failed
\* (the store calls of this scenario do not fail).
FirstSucceeded == calls[1] # <<>> /\ \A i \in 1..Len(calls[1]) : calls[1][i].ok

\* C23: a sync that runs after a sync that succeeded (nothing is queued in
\* between, the remote changes by the writes of the syncs only) makes no
\* remote write, and when it is done the snapshot holds, in the store and in
\* offlineData, the records it held before, under a later last_synced.
C23_SyncIdempotent ==
  \A p \in Procs :
    LET pr == procs[p]
    IN (pr.sid = 2 /\ FirstSucceeded) =>
         /\ \A i \in 1..Len(calls[2]) : calls[2][i].op \notin WriteOps
         /\ pr.pc = "done" =>
              /\ Records(offStore[pr.repo].issues) = Records(pr.pre.off.issues)
              /\ Len(offStore[pr.repo].issues) = Len(pr.pre.off.issues)
              /\ offlineData[pr.repo] = offStore[pr.repo]
              /\ offStore[pr.repo].last_synced > pr.pre.off.last_synced

\* The first sync published a queued entry and stored its snapshot; a second,
\* incremental sync is done.
C23_Witness ==
  \E p \in Procs :
    /\ procs[p].sid = 2
    /\ procs[p].pc = "done"
    /\ procs[p].mode = "incr"
    /\ FirstSucceeded
    /\ \E i \in 1..Len(calls[1]) : calls[1][i].op \in WriteOps
    /\ \E i \in 1..Len(calls[2]) : calls[2][i].op = "fetchIssueComments"

\* ------------------------------------------------------- snapshot writes
\* rec is the complete snapshot of what the remote holds, under a
\* last_synced later than the one the sync started from.
NewSnapshot(pr, rec) ==
  /\ rec.present
  /\ rec.issues = FullSnapshot(remote[pr.repo])
  /\ rec.last_synced > pr.pre.off.last_synced

\* C22: while a full sync runs and when it has ended, the stored record of
\* the repository is the one the sync started from or, once the sync has
\* handed its record to the store, the complete fetched snapshot under its
\* new last_synced; offlineData holds the entry the sync started from or,
\* once the sync is done, that same new record.
C22_AtomicSnapshot ==
  \A p \in Procs :
    LET pr == procs[p]
    IN (pr.pc # "idle" /\ pr.mode = "full") =>
         /\ \/ offStore[pr.repo] = pr.pre.off
            \/ pr.wrote /\ NewSnapshot(pr, offStore[pr.repo])
         /\ \/ offlineData[pr.repo] = pr.pre.data
            \/ /\ pr.pc = "done"
               /\ offlineData[pr.repo] = offStore[pr.repo]
               /\ NewSnapshot(pr, offlineData[pr.repo])

\* A full sync of a repository that had a snapshot has handed its record to
\* the store and awaits the save: the store holds the new snapshot and
\* offlineData the old one.
C22_Witness ==
  \E p \in Procs :
    /\ procs[p].pc = "persist"
    /\ procs[p].mode = "full"
    /\ procs[p].pre.off.present
    /\ offlineData[procs[p].repo] = procs[p].pre.data
    /\ NewSnapshot(procs[p], offStore[procs[p].repo])
    /\ offStore[procs[p].repo].issues # procs[p].pre.off.issues

\* -------------------------------------------------------- effective view
\* The entries of the evaluated queue for the issue the evaluation was for.
ViewHits ==
  {x \in 1..Len(view.queue) :
     /\ view.queue[x].repoId = view.repoId
     /\ view.queue[x].issueNumber = view.issueNumber}

\* C12: getEffectiveIssueState returns the state of the pending state change
\* of (repoId, issueNumber) when the queue has one, and the snapshot state
\* it was given otherwise.
C12_EffectiveState ==
  view.fn = "getEffectiveIssueState" =>
    IF ViewHits = {} THEN view.result = view.current
    ELSE \A x \in ViewHits : view.result = view.queue[x].val

\* The overlay changed what the snapshot says; the entry is not the first
\* of the queue.
C12_Witness ==
  /\ view.fn = "getEffectiveIssueState"
  /\ ViewHits # {}
  /\ 1 \notin ViewHits
  /\ view.result # view.current

\* C13: getEffectiveIssueLabels returns the snapshot labels when the queue
\* has no label update of (repoId, issueNumber); otherwise one label per
\* queued name, in queue order: the catalog's label of that name, or a label
\* of that name with color 6b7280 when the catalog has none.
C13_EffectiveLabels ==
  view.fn = "getEffectiveIssueLabels" =>
    IF ViewHits = {} THEN view.result = view.current
    ELSE \A x \in ViewHits :
           LET names == view.queue[x].val
               known(name) == {y \in 1..Len(view.catalog) :
                                 view.catalog[y].name = name}
           IN /\ Len(view.result) = Len(names)
              /\ \A k \in 1..Len(names) :
                   /\ view.result[k].name = names[k]
                   /\ IF known(names[k]) # {}
                      THEN \E y \in known(names[k]) :
                             view.result[k] = view.catalog[y]
                      ELSE view.result[k].color = "6b7280"

\* Two names are queued: the first is unknown to the catalog, the second is
\* in it.
C13_Witness ==
  /\ view.fn = "getEffectiveIssueLabels"
  /\ ViewHits # {}
  /\ Len(view.result) = 2
  /\ view.result[1].color = "6b7280"
  /\ view.result[2] = RemoteLabels[1]
  /\ view.current # view.result

\* What an evaluation step may read.
ViewReads(fn) ==
  IF fn = "getEffectiveIssueState" THEN <<pendingStateChanges, <<>>>>
  ELSE <<pendingLabelUpdates, repositoryLabels[view.repoId]>>

C14_Step ==
  view' # view =>
    /\ UNCHANGED <<store, mem, offStore, offlineData, repositoryLabels,
                   cachedImages>>
    /\ (/\ view'.fn = view.fn
        /\ view'.repoId = view.repoId
        /\ view'.issueNumber = view.issueNumber
        /\ view'.current = view.current
        /\ <<view.queue, view.catalog>> = ViewReads(view.fn))
         => view'.result = view.result

\* C14: an evaluation of getEffectiveIssueState or getEffectiveIssueLabels
\* changes no queue, no snapshot and not the label catalog, and it returns
\* what the previous evaluation of the same arguments returned when the
\* queue and the catalog are what that evaluation read.
C14_ViewReadOnly == [][C14_Step]_vars

\* The overlay was evaluated over a queue that has an entry for the issue.
C14_Witness ==
  /\ view.fn = "getEffectiveIssueState"
  /\ ViewHits # {}
  /\ mem["state"] = view.queue
  /\ store["state"] = view.queue

\* ----------------------------------------------------------- image cache
ReturnsOf(sid) ==
  SelectSeq(imageLog, LAMBDA e : e.ev = "return" /\ e.sid = sid)

UrlsOf(events) == [x \in 1..Len(events) |-> events[x].url]

ImagePcs == {"images", "imgLookup", "imgFetch", "imgWrite", "imgAdd", "imgSave"}

C26_EntryKept ==
  [][/\ \A x, y \in 1..Len(cachedImages') :
          cachedImages'[x].url = cachedImages'[y].url => x = y
     /\ \A x \in 1..Len(cachedImages) :
          \E y \in 1..Len(cachedImages') : cachedImages'[y] = cachedImages[x]
    ]_vars

\* The absolute references that are the target of a markdown image or the
\* src of an img tag of the text.
Targets(text) ==
  LET segs == CHOOSE s \in SegLists(MaxSegs) : Markdown(s) = text
  IN {segs[x][2] : x \in {y \in 1..Len(segs) :
                            /\ segs[y][1] \in {"md", "title", "html"}
                            /\ segs[y][2] \in HttpUrls}}

\* C31: the urls extracted from the text of an issue have no duplicates and
\* are exactly the absolute (http, https) references that are the target of
\* a markdown image or the src of an img tag of the text.
C31_ExtractedUrls ==
  \A p \in Procs :
    procs[p].pc \in ImagePcs =>
      LET urls == procs[p].urls
      IN /\ \A x, y \in 1..Len(urls) : urls[x] = urls[y] => x = y
         /\ {urls[x] : x \in 1..Len(urls)}
              = Targets(remote[procs[p].repo][1].body)

\* C16: no failure of a step of cacheImage fails the sync: cacheImage has
\* returned for the urls before the current one, in order, and once the loop
\* is over it has returned for every url of the fetched issues and the new
\* record, with a new last_synced, is in the store.
C16_ImageFailureTolerated ==
  \A p \in Procs :
    LET pr == procs[p]
    IN /\ pr.pc # "failed"
       /\ pr.pc \in ImagePcs =>
            UrlsOf(ReturnsOf(pr.sid)) = SubSeq(pr.urls, 1, pr.u - 1)
       /\ (pr.mode = "full" /\ pr.pc \in {"persist", "done"}) =>
            /\ UrlsOf(ReturnsOf(pr.sid)) = uniqueUrls(pr.issues)
            /\ offStore[pr.repo] = pr.rec
            /\ pr.rec.issues = pr.issues
            /\ pr.rec.last_synced > pr.pre.off.last_synced

\* A full sync is over; the first of its two images failed, the second was
\* cached.
C16_Witness ==
  \E p \in Procs :
    LET rets == ReturnsOf(procs[p].sid)
    IN /\ procs[p].pc = "done"
       /\ procs[p].mode = "full"
       /\ Len(rets) = 2
       /\ rets[1].result = "null"
       /\ rets[2].result = "cached"
       /\ offStore[procs[p].repo].present

====
